---- MODULE Spec2Model ----
(***************************************************************************)
(* A model of the POD2 core: the sparse binary Merkle tree of              *)
(* src/primitives/merkletree_new.rs and the statement / operation checker  *)
(* of src/middleware.                                                      *)
(*                                                                         *)
(* A Value and a Hash are both four field elements; they are modelled as   *)
(* 4-tuples of canonical limbs <<l0, l1, l2, l3>>.  The output of the      *)
(* Poseidon hash cannot be computed here; it is modelled symbolically as   *)
(* the 3-tuple <<"H", a, b>> of its two 4-element inputs, which makes it   *)
(* injective and never equal to a tuple of plain limbs.                    *)
(***************************************************************************)
EXTENDS Integers, Sequences, FiniteSets, TLC

\* ------------------------------------------------------------------ bounds
\* keys of the tree are Value::from(i), 0 <= i <= MaxKey
MaxKey == 4
\* values of the tree are Value::from(j), 0 <= j <= MaxVal
MaxVal == 1
\* at most MaxLeaves key-value pairs in kvs
MaxLeaves == 3
\* the width of half a machine word: the code's 32-bit halves of a 64-bit
\* integer are modelled as HalfBits-bit halves of a 2*HalfBits-bit integer
HalfBits == 2
\* max_depth ranges over 1..MaxDepth
MaxDepth == 3

VARIABLES
    max_depth,  \* MerkleTree.max_depth
    kvs,        \* the HashMap<Value, Value> given to MerkleTree::new
    pending,    \* keys of kvs that the loop of MerkleTree::new has not yet visited
    root,       \* MerkleTree.root (a Node)
    status,     \* "building" | "built" | "failed"
    build_err,  \* the error MerkleTree::new returned, "" when none
    last,       \* the last call made on the built tree, with its result
    op,         \* the Operation handed to Operation::check
    out,        \* the output Statement handed to Operation::check
    overflow_checks, \* whether the build panics on integer overflow (debug) or wraps
    op_phase,   \* "input" | "checked"
    check_res,  \* what Operation::check returned
    op_code,    \* the NativeOperation handed to Operation::op
    op_args,    \* the argument statements handed to Operation::op
    op_phase_new, \* "input" | "formed"
    op_res,     \* what Operation::op returned
    ser_params, \* the Params in force when a statement is serialised
    ser_st,     \* the Statement whose to_fields is called
    ser_phase,  \* "input" | "serialised"
    ser_out,    \* what to_fields returned: the elements and their count
    mp_params,  \* the Params handed to MockMainPod::new
    mp_inputs,  \* the MainPodInputs handed to MockMainPod::new
    mp_phase,   \* "input" | "laid" | "done" | "panicked"
    mp_statements, \* MockMainPod.statements
    mp_operations, \* MockMainPod.operations
    b_params,     \* MainPodBuilder.params
    b_input_signed_pods, \* MainPodBuilder.input_signed_pods
    b_input_main_pods,   \* MainPodBuilder.input_main_pods
    b_statements, \* MainPodBuilder.statements
    b_operations, \* MainPodBuilder.operations
    b_public_statements, \* MainPodBuilder.public_statements
    b_const_cnt,  \* MainPodBuilder.const_cnt
    builder_phase, \* "building" | "proved" | "panicked"
    calls_left, \* how many more op, pub_op and insert calls the user makes
    main_pod,   \* the MockMainPod that prove returned
    cp_predicates, \* CustomPredicateBatchBuilder.predicates
    cp_calls,   \* the arguments of the predicate_and / predicate_or calls made
    cp_returned, \* the Predicate each of those calls returned
    cp_phase,   \* "building" | "finished" | "panicked"
    cp_batch,   \* the CustomPredicateBatch that finish returned
    cv_in,      \* the integers or the Value to convert
    cv_phase,   \* "input" | "converted"
    cv_out      \* what the conversions returned

treeVars == <<max_depth, kvs, pending, root, status, build_err, last>>

opVars == <<op, out, overflow_checks, op_phase, check_res>>

newVars == <<op_code, op_args, op_phase_new, op_res>>

serVars == <<ser_params, ser_st, ser_phase, ser_out>>

mpVars == <<mp_params, mp_inputs, mp_phase, mp_statements, mp_operations>>

builderVars ==
    <<b_params, b_input_signed_pods, b_input_main_pods, b_statements, b_operations,
      b_public_statements, b_const_cnt, builder_phase, calls_left, main_pod>>

cpVars == <<cp_predicates, cp_calls, cp_returned, cp_phase, cp_batch>>

cvVars == <<cv_in, cv_phase, cv_out>>

vars == <<treeVars, opVars, newVars, serVars, mpVars, builderVars, cpVars, cvVars>>

\* the variables a call on the tree, a call of Operation::check and a call of
\* Operation::op leave alone
notTree == <<opVars, newVars, serVars, mpVars, builderVars, cpVars, cvVars>>

notOp == <<treeVars, newVars, serVars, mpVars, builderVars, cpVars, cvVars>>

notNew == <<treeVars, opVars, serVars, mpVars, builderVars, cpVars, cvVars>>

notSer == <<treeVars, opVars, newVars, mpVars, builderVars, cpVars, cvVars>>

notMp == <<treeVars, opVars, newVars, serVars, builderVars, cpVars, cvVars>>

notBuilder == <<treeVars, opVars, newVars, serVars, mpVars, cpVars, cvVars>>

notCp == <<treeVars, opVars, newVars, serVars, mpVars, builderVars, cvVars>>

notCv == <<treeVars, opVars, newVars, serVars, mpVars, builderVars, cpVars>>

\* ------------------------------------------------------- field and hashes
NULL == <<0, 0, 0, 0>>

EMPTY == <<0, 0, 0, 0>>

\* PoseidonHash::hash_no_pad over the concatenation of two 4-element inputs
hash_no_pad(a, b) == <<"H", a, b>>

\* Option<Hash>::None of a node whose hash is not computed yet
NoHash == <<>>

\* Value::from(i) for 0 <= i < 2^32: the integer sits in limb 0
SmallValue(i) == <<i, 0, 0, 0>>

Keys == {SmallValue(i) : i \in 0..MaxKey}

Vals == {SmallValue(j) : j \in 0..MaxVal}

\* Value::to_bytes: little-endian bytes of the four u64 limbs; bit n of the
\* byte string is bit (n mod 64) of limb (n div 64)
ToBytesBit(k, n) == ((k[(n \div 64) + 1] \div (2 ^ (n % 64))) % 2) = 1

\* keypath without the check of the length of the key: the bits past the
\* first byte read as 0
keypath_unchecked(md, k) ==
    [ok |-> TRUE, err |-> "",
     path |-> [n \in 1..md |-> n - 1 < 8 /\ ToBytesBit(k, n - 1)]]

\* keypath(max_depth, k)
keypath(md, k) ==
    IF md > 8 * 32
    THEN [ok |-> FALSE, err |-> "key to short", path |-> <<>>]
    ELSE [ok |-> TRUE, err |-> "", path |-> [n \in 1..md |-> ToBytesBit(k, n - 1)]]

\* ------------------------------------------------------------------ nodes
NodeNone == [t |-> "None"]

\* Intermediate::empty()
IntermediateEmpty ==
    [t |-> "Intermediate", hash |-> NoHash, left |-> NodeNone, right |-> NodeNone]

\* Leaf::new(max_depth, key, value), given the key path
LeafNew(path, key, value) ==
    [t |-> "Leaf", hash |-> NoHash, path |-> path, key |-> key, value |-> value]

\* Node::is_empty
is_empty(n) == n.t = "None"

\* Node::hash: the stored hash (NULL for Node::None)
node_hash(n) == IF n.t = "None" THEN NULL ELSE n.hash

\* down_till_divergence with the two leaves attached without looking at the
\* new leaf's path bit: the old leaf left, the new leaf right
RECURSIVE down_till_divergence_unordered(_, _, _, _, _)
down_till_divergence_unordered(self, lvl, md, old_leaf, new_leaf) ==
    IF lvl >= md
    THEN [err |-> "max depth reached", node |-> self]
    ELSE IF old_leaf.path[lvl + 1] # new_leaf.path[lvl + 1]
    THEN [err |-> "", node |-> [self EXCEPT !.left = old_leaf, !.right = new_leaf]]
    ELSE LET r == down_till_divergence_unordered(IntermediateEmpty, lvl + 1, md,
                                                 old_leaf, new_leaf)
         IN  IF new_leaf.path[lvl + 1]
             THEN [err |-> r.err, node |-> [self EXCEPT !.right = r.node]]
             ELSE [err |-> r.err, node |-> [self EXCEPT !.left = r.node]]

\* Node::down_till_divergence; returns the error ("" for Ok) and the node
RECURSIVE down_till_divergence(_, _, _, _, _)
down_till_divergence(self, lvl, md, old_leaf, new_leaf) ==
    IF lvl >= md
    THEN [err |-> "max depth reached", node |-> self]
    ELSE IF self.t = "Intermediate"
    THEN IF old_leaf.path[lvl + 1] # new_leaf.path[lvl + 1]
         THEN IF new_leaf.path[lvl + 1]
              THEN [err |-> "",
                    node |-> [self EXCEPT !.left = old_leaf, !.right = new_leaf]]
              ELSE [err |-> "",
                    node |-> [self EXCEPT !.left = new_leaf, !.right = old_leaf]]
         ELSE IF new_leaf.path[lvl + 1]
              THEN LET r == down_till_divergence(IntermediateEmpty, lvl + 1, md,
                                                 old_leaf, new_leaf)
                   IN  [err |-> r.err, node |-> [self EXCEPT !.right = r.node]]
              ELSE LET r == down_till_divergence(IntermediateEmpty, lvl + 1, md,
                                                 old_leaf, new_leaf)
                   IN  [err |-> r.err, node |-> [self EXCEPT !.left = r.node]]
    ELSE [err |-> "", node |-> self]

\* Node::add_leaf; returns the error ("" for Ok) and the node after the call
RECURSIVE add_leaf(_, _, _, _)
add_leaf(self, lvl, md, leaf) ==
    IF lvl >= md
    THEN [err |-> "max depth reached", node |-> self]
    ELSE CASE self.t = "Intermediate" ->
                IF leaf.path[lvl + 1]
                THEN IF is_empty(self.right)
                     THEN [err |-> "", node |-> [self EXCEPT !.right = leaf]]
                     ELSE LET r == add_leaf(self.right, lvl + 1, md, leaf)
                          IN  [err |-> r.err, node |-> [self EXCEPT !.right = r.node]]
                ELSE IF is_empty(self.left)
                     THEN [err |-> "", node |-> [self EXCEPT !.left = leaf]]
                     ELSE LET r == add_leaf(self.left, lvl + 1, md, leaf)
                          IN  [err |-> r.err, node |-> [self EXCEPT !.left = r.node]]
           [] self.t = "Leaf" ->
                IF self.key = leaf.key
                THEN [err |-> "key already exists", node |-> self]
                ELSE down_till_divergence(IntermediateEmpty, lvl, md, self, leaf)
           [] OTHER ->
                [err |-> "reached empty node, should not have entered", node |-> self]

\* Node::compute_hash (with Leaf::compute_hash and Intermediate::compute_hash):
\* the node with the hash of every node below it stored
RECURSIVE compute_hash(_)
compute_hash(n) ==
    CASE n.t = "Leaf" -> [n EXCEPT !.hash = hash_no_pad(n.key, n.value)]
      [] n.t = "Intermediate" ->
            IF is_empty(n.left) /\ is_empty(n.right)
            THEN [n EXCEPT !.hash = NULL]
            ELSE LET l == compute_hash(n.left)
                     r == compute_hash(n.right)
                 IN  [n EXCEPT !.left = l, !.right = r,
                               !.hash = hash_no_pad(node_hash(l), node_hash(r))]
      [] OTHER -> n

\* Node::down; siblings is [some |-> BOOLEAN, vec |-> sequence of hashes]
RECURSIVE down(_, _, _, _, _)
down(self, lvl, md, path, siblings) ==
    IF lvl >= md
    THEN [ok |-> FALSE, err |-> "max depth reached", value |-> EMPTY, siblings |-> siblings]
    ELSE CASE self.t = "Intermediate" ->
                IF path[lvl + 1]
                THEN down(self.right, lvl + 1, md, path,
                          IF siblings.some
                          THEN [siblings EXCEPT !.vec = Append(@, node_hash(self.left))]
                          ELSE siblings)
                ELSE down(self.left, lvl + 1, md, path,
                          IF siblings.some
                          THEN [siblings EXCEPT !.vec = Append(@, node_hash(self.right))]
                          ELSE siblings)
           [] self.t = "Leaf" ->
                [ok |-> TRUE, err |-> "", value |-> self.value, siblings |-> siblings]
           [] OTHER ->
                [ok |-> FALSE, err |-> "leaf not found", value |-> EMPTY,
                 siblings |-> siblings]

NoSiblings == [some |-> FALSE, vec |-> <<>>]

SomeSiblings == [some |-> TRUE, vec |-> <<>>]

\* a MerkleProof
MerkleProof(existence, siblings) == [existence |-> existence, siblings |-> siblings]

NoProof == MerkleProof(FALSE, <<>>)

\* MerkleTree::get
get(md, rt, key) ==
    LET kp == keypath(md, key)
    IN  IF ~kp.ok
        THEN [ok |-> FALSE, err |-> kp.err, value |-> EMPTY, proof |-> NoProof]
        ELSE LET r == down(rt, 0, md, kp.path, NoSiblings)
             IN  [ok |-> r.ok, err |-> r.err, value |-> r.value, proof |-> NoProof]

\* MerkleTree::prove
prove(md, rt, key) ==
    LET kp == keypath(md, key)
    IN  IF ~kp.ok
        THEN [ok |-> FALSE, err |-> kp.err, value |-> EMPTY, proof |-> NoProof]
        ELSE LET r == down(rt, 0, md, kp.path, SomeSiblings)
             IN  IF r.ok
                 THEN [ok |-> TRUE, err |-> "", value |-> r.value,
                       proof |-> MerkleProof(TRUE, r.siblings.vec)]
                 ELSE [ok |-> FALSE, err |-> r.err, value |-> EMPTY, proof |-> NoProof]

\* the loop of MerkleTree::verify: from the last sibling to the first
RECURSIVE verify_fold(_, _, _, _)
verify_fold(h, siblings, path, i) ==
    IF i = 0
    THEN h
    ELSE verify_fold(IF path[i]
                     THEN hash_no_pad(siblings[i], h)
                     ELSE hash_no_pad(h, siblings[i]),
                     siblings, path, i - 1)

\* verify with the comparison against the root inverted
verify_inverted(md, rt_hash, proof, key, value) ==
    IF Len(proof.siblings) >= md
    THEN "max depth reached"
    ELSE LET kp == keypath(md, key)
         IN  IF ~kp.ok
             THEN kp.err
             ELSE IF verify_fold(hash_no_pad(key, value), proof.siblings, kp.path,
                                 Len(proof.siblings)) = rt_hash
                  THEN "proof of inclusion does not verify"
                  ELSE ""

\* MerkleTree::verify; the error, "" for Ok(())
verify(md, rt_hash, proof, key, value) ==
    IF Len(proof.siblings) >= md
    THEN "max depth reached"
    ELSE LET kp == keypath(md, key)
         IN  IF ~kp.ok
             THEN kp.err
             ELSE IF verify_fold(hash_no_pad(key, value), proof.siblings, kp.path,
                                 Len(proof.siblings)) # rt_hash
                  THEN "proof of inclusion does not verify"
                  ELSE ""

\* MerkleTree::prove_nonexistence: the body is todo!(), which panics
prove_nonexistence(md, rt, key) ==
    [ok |-> FALSE, err |-> "panic: not yet implemented", value |-> EMPTY,
     proof |-> NoProof]

\* MerkleTree::verify_nonexistence: the body is todo!(), which panics
verify_nonexistence(rt_hash, proof, key) == "panic: not yet implemented"

\* ------------------------------------------------------------------ values
\* 2^32 and 2^64 of the code, at the model's width
Half == 2 ^ HalfBits

Word == Half * Half

\* u32::MAX
U32Max == Half - 1

\* i64::MIN and i64::MAX
I64Min == -(Word \div 2)

I64Max == (Word \div 2) - 1

\* `v as u64` of an i64
AsU64(x) == x % Word

\* `u as i64` of a u64
AsI64(u) == IF u % Word > I64Max THEN (u % Word) - Word ELSE u % Word

\* impl From<i64> for Value
ValueFrom(x) == <<AsU64(x) % Half, AsU64(x) \div Half, 0, 0>>

\* impl TryInto<i64> for Value: `value[0] + value[1] << 32` parses as
\* `(value[0] + value[1]) << 32`; the shift drops the bits above the word
try_into_i64(v) ==
    IF <<v[3], v[4]>> # <<0, 0>> \/ (\A i \in 1..2 : v[i] > U32Max)
    THEN [ok |-> FALSE, val |-> 0]
    ELSE [ok |-> TRUE, val |-> AsI64(((v[1] + v[2]) * Half) % Word)]

\* impl Ord for Value with the limbs compared from index 0 upwards
RECURSIVE value_cmp_lsb_first(_, _, _)
value_cmp_lsb_first(lhs, rhs, i) ==
    IF i = 0
    THEN "Equal"
    ELSE IF lhs[5 - i] < rhs[5 - i]
    THEN "Less"
    ELSE IF lhs[5 - i] > rhs[5 - i]
    THEN "Greater"
    ELSE value_cmp_lsb_first(lhs, rhs, i - 1)

\* impl Ord for Value: the loop over the zipped limbs, reversed, from limb i
\* (1-based) down to the first
RECURSIVE value_cmp(_, _, _)
value_cmp(lhs, rhs, i) ==
    IF i = 0
    THEN "Equal"
    ELSE IF lhs[i] < rhs[i]
    THEN "Less"
    ELSE IF lhs[i] > rhs[i]
    THEN "Greater"
    ELSE value_cmp(lhs, rhs, i - 1)

\* v1 > v2 and v1 < v2 on Value (PartialOrd from cmp)
value_gt(v1, v2) == value_cmp(v1, v2, 4) = "Greater"

value_lt(v1, v2) == value_cmp(v1, v2, 4) = "Less"

\* impl Ord for Hash
hash_cmp(a, b) == value_cmp(a, b, 4)

\* -------------------------------------------------- statements, operations
\* SELF
SELF == <<1, 0, 0, 0>>

\* AnchoredKey(PodId, Hash)
AnchoredKey(pod, key) == [pod |-> pod, key |-> key]

\* a Statement: its predicate, its anchored keys in order, and the Value of a
\* ValueOf (EMPTY for the other predicates)
Statement(pred, aks, value) == [pred |-> pred, aks |-> aks, value |-> value]

StatementNone == Statement("None", <<>>, EMPTY)

ValueOf(ak, v) == Statement("ValueOf", <<ak>>, v)

\* an Operation: its code and its argument statements
Operation(code, args) == [code |-> code, args |-> args]

\* the predicates of the arguments of an operation
ArgPreds(o) == [i \in 1..Len(o.args) |-> o.args[i].pred]

\* the results of Operation::check
CheckOk(b) == [kind |-> "Ok", val |-> b, err |-> ""]

CheckErr(e) == [kind |-> "Err", val |-> FALSE, err |-> e]

CheckPanic(e) == [kind |-> "Panic", val |-> FALSE, err |-> e]

\* the EqualFromEntries rule without the comparison of the second key
check_EqualFromEntries_one_key(ak1, v1, ak2, v2, ak3, ak4) ==
    v1 = v2 /\ ak3 = ak1

\* the condition of the EqualFromEntries rule
check_EqualFromEntries(ak1, v1, ak2, v2, ak3, ak4) ==
    v1 = v2 /\ ak3 = ak1 /\ ak4 = ak2

\* the condition of the NotEqualFromEntries rule
check_NotEqualFromEntries(ak1, v1, ak2, v2, ak3, ak4) ==
    v1 # v2 /\ ak3 = ak1 /\ ak4 = ak2

\* the condition of the GtFromEntries rule
check_GtFromEntries(ak1, v1, ak2, v2, ak3, ak4) ==
    value_gt(v1, v2) /\ ak3 = ak1 /\ ak4 = ak2

\* the condition of the LtFromEntries rule
check_LtFromEntries(ak1, v1, ak2, v2, ak3, ak4) ==
    value_lt(v1, v2) /\ ak3 = ak1 /\ ak4 = ak2

\* the body of the SumOf rule: three conversions with `?`, then the i64
\* addition, which panics on overflow in a build with overflow checks and
\* wraps in one without
check_SumOf(s1, s2, s3, o, oc) ==
    LET v1 == try_into_i64(s1.value)
        v2 == try_into_i64(s2.value)
        v3 == try_into_i64(s3.value)
        sum == v2.val + v3.val
    IN  IF ~v1.ok \/ ~v2.ok \/ ~v3.ok
        THEN CheckErr("Value not an element of the i64 embedding.")
        ELSE IF (sum < I64Min \/ sum > I64Max) /\ oc
        THEN CheckPanic("attempt to add with overflow")
        ELSE CheckOk(/\ v1.val = AsI64(AsU64(sum))
                     /\ o.aks[1] = s1.aks[1]
                     /\ o.aks[2] = s2.aks[1]
                     /\ o.aks[3] = s3.aks[1])

\* Operation::check(&self, output_statement); oc is the build's overflow checks
check(self, o, oc) ==
    CASE self.code = "None" /\ o.pred = "None" -> CheckOk(TRUE)
      [] self.code = "NewEntry" /\ o.pred = "ValueOf" -> CheckOk(o.aks[1].pod = SELF)
      [] self.code = "CopyStatement" -> CheckOk(self.args[1] = o)
      [] self.code = "EqualFromEntries" /\ ArgPreds(self) = <<"ValueOf", "ValueOf">>
            /\ o.pred = "Equal" ->
            CheckOk(check_EqualFromEntries(self.args[1].aks[1], self.args[1].value,
                                           self.args[2].aks[1], self.args[2].value,
                                           o.aks[1], o.aks[2]))
      [] self.code = "NotEqualFromEntries" /\ ArgPreds(self) = <<"ValueOf", "ValueOf">>
            /\ o.pred = "NotEqual" ->
            CheckOk(check_NotEqualFromEntries(self.args[1].aks[1], self.args[1].value,
                                              self.args[2].aks[1], self.args[2].value,
                                              o.aks[1], o.aks[2]))
      [] self.code = "GtFromEntries" /\ ArgPreds(self) = <<"ValueOf", "ValueOf">>
            /\ o.pred = "Gt" ->
            CheckOk(check_GtFromEntries(self.args[1].aks[1], self.args[1].value,
                                        self.args[2].aks[1], self.args[2].value,
                                        o.aks[1], o.aks[2]))
      [] self.code = "LtFromEntries" /\ ArgPreds(self) = <<"ValueOf", "ValueOf">>
            /\ o.pred = "Lt" ->
            CheckOk(check_LtFromEntries(self.args[1].aks[1], self.args[1].value,
                                        self.args[2].aks[1], self.args[2].value,
                                        o.aks[1], o.aks[2]))
      [] self.code = "ContainsFromEntries" /\ o.pred = "Contains" -> CheckOk(TRUE)
      [] self.code = "NotContainsFromEntries" /\ o.pred = "NotContains" -> CheckOk(TRUE)
      [] self.code = "TransitiveEqualFromStatements"
            /\ ArgPreds(self) = <<"Equal", "Equal">> /\ o.pred = "Equal" ->
            CheckOk(/\ self.args[1].aks[2] = self.args[2].aks[1]
                    /\ o.aks[1] = self.args[1].aks[1]
                    /\ o.aks[2] = self.args[2].aks[2])
      [] self.code = "GtToNotEqual" /\ ArgPreds(self) = <<"Gt">> /\ o.pred = "NotEqual" ->
            CheckOk(self.args[1].aks[1] = o.aks[1] /\ self.args[1].aks[2] = o.aks[2])
      [] self.code = "LtToNotEqual" /\ ArgPreds(self) = <<"Lt">> /\ o.pred = "NotEqual" ->
            CheckOk(self.args[1].aks[1] = o.aks[1] /\ self.args[1].aks[2] = o.aks[2])
      [] self.code = "RenameContainedBy" /\ ArgPreds(self) = <<"Contains", "Equal">>
            /\ o.pred = "Contains" ->
            CheckOk(/\ self.args[1].aks[1] = self.args[2].aks[1]
                    /\ self.args[2].aks[2] = o.aks[1]
                    /\ self.args[1].aks[2] = o.aks[2])
      [] self.code = "SumOf" /\ ArgPreds(self) = <<"ValueOf", "ValueOf", "ValueOf">>
            /\ o.pred = "SumOf" ->
            check_SumOf(self.args[1], self.args[2], self.args[3], o, oc)
      [] OTHER -> CheckErr("Invalid deduction")

\* Array::new: the Merkle tree over Value::from(i) -> raw[i], given the tree
\* built from the elements before index i
RECURSIVE ArrayNew(_, _, _)
ArrayNew(raw, i, md) ==
    IF i = 0
    THEN IntermediateEmpty
    ELSE add_leaf(ArrayNew(raw, i - 1, md), 0, md,
                  LeafNew(keypath(md, SmallValue(i - 1)).path, SmallValue(i - 1),
                          raw[i])).node

\* the commitment of an array: the root of its tree, as a Value
ArrayCommitment(raw) == node_hash(compute_hash(ArrayNew(raw, Len(raw), MaxDepth)))

\* ------------------------------------------------------------ tree actions
\* every map from at most MaxLeaves keys to values
KvsInputs ==
    UNION {[S -> Vals] : S \in {T \in SUBSET Keys : Cardinality(T) <= MaxLeaves}}

NoCall ==
    [op |-> "none", key |-> EMPTY, value |-> EMPTY, proof |-> NoProof,
     res |-> [ok |-> TRUE, err |-> "", value |-> EMPTY, proof |-> NoProof]]

TreeInit ==
    /\ max_depth \in 1..MaxDepth
    /\ kvs \in KvsInputs
    /\ pending = DOMAIN kvs
    /\ root = IntermediateEmpty
    /\ status = "building"
    /\ build_err = ""
    /\ last = NoCall

\* one iteration of the loop of MerkleTree::new, the map's iteration order
\* being arbitrary; the first error ends the construction
NewAddLeaf ==
    /\ status = "building"
    /\ \E k \in pending :
          LET kp == keypath(max_depth, k)
              r  == add_leaf(root, 0, max_depth, LeafNew(kp.path, k, kvs[k]))
          IN  IF ~kp.ok
              THEN /\ status' = "failed"
                   /\ build_err' = kp.err
                   /\ UNCHANGED <<root, pending>>
              ELSE IF r.err # ""
              THEN /\ status' = "failed"
                   /\ build_err' = r.err
                   /\ UNCHANGED <<root, pending>>
              ELSE /\ root' = r.node
                   /\ pending' = pending \ {k}
                   /\ UNCHANGED <<status, build_err>>
    /\ UNCHANGED <<max_depth, kvs, last, notTree>>

\* the end of MerkleTree::new: root.compute_hash() and Ok(Self)
NewComputeHash ==
    /\ status = "building"
    /\ pending = {}
    /\ root' = compute_hash(root)
    /\ status' = "built"
    /\ UNCHANGED <<max_depth, kvs, pending, build_err, last, notTree>>

\* MerkleTree::root
root_hash == node_hash(root)

Get ==
    /\ status = "built"
    /\ last.op = "none"
    /\ \E k \in Keys :
          last' = [op |-> "get", key |-> k, value |-> EMPTY, proof |-> NoProof,
                   res |-> get(max_depth, root, k)]
    /\ UNCHANGED <<max_depth, kvs, pending, root, status, build_err, notTree>>

Prove ==
    /\ status = "built"
    /\ last.op = "none"
    /\ \E k \in Keys :
          last' = [op |-> "prove", key |-> k, value |-> EMPTY, proof |-> NoProof,
                   res |-> prove(max_depth, root, k)]
    /\ UNCHANGED <<max_depth, kvs, pending, root, status, build_err, notTree>>

\* the hashes a tampered proof puts in the place of a sibling
TamperHashes == {NULL, hash_no_pad(EMPTY, EMPTY), hash_no_pad(NULL, SmallValue(1))}

\* values handed to verify: those of the tree and the 9999 of the spec's scenario
VerifyVals == Vals \cup {SmallValue(9999)}

\* MerkleTree::verify on the proof the last prove returned, as it is or with
\* one sibling replaced
Verify ==
    /\ status = "built"
    /\ last.op = "prove"
    /\ last.res.ok
    /\ \E v \in VerifyVals, i \in 0..Len(last.res.proof.siblings), h \in TamperHashes :
          LET p == IF i = 0
                   THEN last.res.proof
                   ELSE [last.res.proof EXCEPT !.siblings[i] = h]
              e == verify(max_depth, root_hash, p, last.key, v)
          IN  last' = [op |-> "verify", key |-> last.key, value |-> v, proof |-> p,
                       res |-> [ok |-> e = "", err |-> e, value |-> last.res.value,
                                proof |-> last.res.proof]]
    /\ UNCHANGED <<max_depth, kvs, pending, root, status, build_err, notTree>>

ProveNonexistence ==
    /\ status = "built"
    /\ last.op = "none"
    /\ \E k \in Keys :
          last' = [op |-> "prove_nonexistence", key |-> k, value |-> EMPTY,
                   proof |-> NoProof, res |-> prove_nonexistence(max_depth, root, k)]
    /\ UNCHANGED <<max_depth, kvs, pending, root, status, build_err, notTree>>

\* MerkleTree::verify_nonexistence on a proof of the caller's
VerifyNonexistence ==
    /\ status = "built"
    /\ last.op = "none"
    /\ \E k \in Keys :
          LET p == MerkleProof(FALSE, <<>>)
              e == verify_nonexistence(root_hash, p, k)
          IN  last' = [op |-> "verify_nonexistence", key |-> k, value |-> EMPTY,
                       proof |-> p,
                       res |-> [ok |-> e = "", err |-> e, value |-> EMPTY,
                                proof |-> NoProof]]
    /\ UNCHANGED <<max_depth, kvs, pending, root, status, build_err, notTree>>

\* ------------------------------------------------------- operation checker
\* the inputs of Operation::check
PodA == <<7, 0, 0, 0>>

KeyA == <<2, 0, 0, 0>>

KeyB == <<3, 0, 0, 0>>

AkA == AnchoredKey(SELF, KeyA)

AkB == AnchoredKey(PodA, KeyB)

AkC == AnchoredKey(PodA, KeyA)

AKs == {AkA, AkB}

AllAKs == {AkA, AkB, AkC}

\* Values compared limb by limb
CmpVals == {<<0, 0, 0, 0>>, <<1, 0, 0, 0>>, <<0, 1, 0, 0>>, <<5, 5, 5, 0>>, <<0, 0, 0, 1>>}

\* i64 integers around the half word and the quarter of the range
IntSamples == {-1, 0, 1, Half - 1, Half, Word \div 4}

IntVals == {ValueFrom(x) : x \in IntSamples}

\* a Value outside the embedding of i64
NotI64 == <<0, 0, 1, 0>>

ArithVals == IntVals \cup {NotI64}

\* an array container and the elements offered to it
SampleArray == <<SmallValue(5), SmallValue(1)>>

ContainerVals == {ArrayCommitment(<<>>), ArrayCommitment(SampleArray)}

ElementVals == {SmallValue(5), SmallValue(2)}

ValueOfs(V) == {ValueOf(a, v) : a \in AKs, v \in V}

Binary(pred) == {Statement(pred, <<a, b>>, EMPTY) : a, b \in AKs}

Ternary(pred) == {Statement(pred, <<a, b, c>>, EMPTY) : a, b, c \in AllAKs}

\* statements of a predicate no rule expects at their place
Decoys == {StatementNone, Statement("Equal", <<AkA, AkB>>, EMPTY)}

SmallStatements == {StatementNone} \cup ValueOfs(CmpVals) \cup Binary("Equal")

EntryArgs == ValueOfs(CmpVals) \cup Decoys

BinaryOuts ==
    Binary("Equal") \cup Binary("NotEqual") \cup Binary("Gt") \cup Binary("Lt")
    \cup {StatementNone}

ContainerOuts == Binary("Contains") \cup Binary("NotContains") \cup {StatementNone}

TernaryOuts == Ternary("SumOf") \cup Ternary("ProductOf") \cup Ternary("MaxOf")

NoCheck == CheckOk(FALSE)

\* no conversion is being made
CvIdle ==
    /\ cv_in = <<>>
    /\ cv_phase = "idle"
    /\ cv_out = <<>>

\* no batch of custom predicates is being built
CpIdle ==
    /\ cp_predicates = <<>>
    /\ cp_calls = <<>>
    /\ cp_returned = <<>>
    /\ cp_phase = "idle"
    /\ cp_batch = <<>>

\* no MainPodBuilder exists
BuilderIdle ==
    /\ b_params = [max_statement_args |-> 0]
    /\ b_input_signed_pods = <<>>
    /\ b_input_main_pods = <<>>
    /\ b_statements = <<>>
    /\ b_operations = <<>>
    /\ b_public_statements = <<>>
    /\ b_const_cnt = 0
    /\ builder_phase = "idle"
    /\ calls_left = 0
    /\ main_pod = <<>>

\* no MockMainPod is being constructed
MpIdle ==
    /\ mp_params = [max_statement_args |-> 0]
    /\ mp_inputs = <<>>
    /\ mp_phase = "idle"
    /\ mp_statements = <<>>
    /\ mp_operations = <<>>

\* no statement is being serialised
SerIdle ==
    /\ ser_params = [max_statement_args |-> 0]
    /\ ser_st = [pred |-> "None", aks |-> <<>>, value |-> <<0, 0, 0, 0>>]
    /\ ser_phase = "idle"
    /\ ser_out = [f |-> <<>>, len |-> 0]

\* no call of Operation::op is being made
NewIdle ==
    /\ op_code = "None"
    /\ op_args = <<>>
    /\ op_phase_new = "idle"
    /\ op_res = [ok |-> FALSE, err |-> "", op |-> Operation("None", <<>>)]

\* no call of Operation::check is being made
OpIdle ==
    /\ op = Operation("None", <<>>)
    /\ out = StatementNone
    /\ overflow_checks = TRUE
    /\ op_phase = "idle"
    /\ check_res = NoCheck

\* no tree is being built
TreeIdle ==
    /\ max_depth = 1
    /\ kvs = <<>>
    /\ pending = {}
    /\ root = IntermediateEmpty
    /\ status = "idle"
    /\ build_err = ""
    /\ last = NoCall

\* the receiver and the argument of a call of Operation::check
CheckInput(o, s, oc) ==
    /\ op = o
    /\ out = s
    /\ overflow_checks = oc

OpInit ==
    /\ TreeIdle
    /\ NewIdle
    /\ SerIdle
    /\ MpIdle
    /\ BuilderIdle
    /\ CpIdle
    /\ CvIdle
    /\ op_phase = "input"
    /\ check_res = NoCheck
    /\ \/ \E c \in {"None", "NewEntry"}, o \in SmallStatements :
             CheckInput(Operation(c, <<>>), o, TRUE)
       \/ \E s \in SmallStatements, o \in SmallStatements :
             CheckInput(Operation("CopyStatement", <<s>>), o, TRUE)
       \/ \E c \in {"GtToNotEqual", "LtToNotEqual"},
             s \in Binary("Gt") \cup Binary("Lt") \cup Decoys,
             o \in Binary("NotEqual") \cup Decoys :
             CheckInput(Operation(c, <<s>>), o, TRUE)
       \/ \E c \in {"EqualFromEntries", "NotEqualFromEntries", "GtFromEntries",
                    "LtFromEntries"},
             s1 \in EntryArgs, s2 \in EntryArgs, o \in BinaryOuts :
             CheckInput(Operation(c, <<s1, s2>>), o, TRUE)
       \/ \E c \in {"ContainsFromEntries", "NotContainsFromEntries"},
             s1 \in ValueOfs(ContainerVals), s2 \in ValueOfs(ElementVals),
             o \in ContainerOuts :
             CheckInput(Operation(c, <<s1, s2>>), o, TRUE)
       \/ \E s1 \in Binary("Equal") \cup {StatementNone},
             s2 \in Binary("Equal") \cup {StatementNone},
             o \in Binary("Equal") \cup {StatementNone} :
             CheckInput(Operation("TransitiveEqualFromStatements", <<s1, s2>>), o, TRUE)
       \/ \E s1 \in Binary("Contains") \cup {StatementNone},
             s2 \in Binary("Equal") \cup {StatementNone},
             o \in Binary("Contains") \cup {StatementNone} :
             CheckInput(Operation("RenameContainedBy", <<s1, s2>>), o, TRUE)
       \/ \E c \in {"SumOf", "ProductOf", "MaxOf"},
             v1 \in ArithVals, v2 \in ArithVals, v3 \in ArithVals,
             o \in TernaryOuts, oc \in BOOLEAN :
             CheckInput(Operation(c, <<ValueOf(AkA, v1), ValueOf(AkB, v2),
                                       ValueOf(AkC, v3)>>), o, oc)

\* the call op.check(&out)
Check ==
    /\ op_phase = "input"
    /\ check_res' = check(op, out, overflow_checks)
    /\ op_phase' = "checked"
    /\ UNCHANGED <<op, out, overflow_checks, notOp>>

OpNext == Check

SpecOp == OpInit /\ [][OpNext]_vars

\* ------------------------------------------------------------ Operation::op
\* NativeOperation
NativeOperations ==
    {"None", "NewEntry", "CopyStatement", "EqualFromEntries", "NotEqualFromEntries",
     "GtFromEntries", "LtFromEntries", "TransitiveEqualFromStatements",
     "GtToNotEqual", "LtToNotEqual", "ContainsFromEntries",
     "NotContainsFromEntries", "RenameContainedBy", "SumOf", "ProductOf", "MaxOf"}

\* the number of arguments the arm of Operation::op for the code takes; the
\* match has no arm for the codes of OTHER
OpArmLen(c) ==
    CASE c \in {"None", "NewEntry"} -> {0}
      [] c = "CopyStatement" -> {1}
      [] c \in {"EqualFromEntries", "NotEqualFromEntries", "GtFromEntries",
                "LtFromEntries", "ContainsFromEntries", "NotContainsFromEntries",
                "RenameContainedBy"} -> {2}
      [] c \in {"SumOf", "ProductOf", "MaxOf"} -> {3}
      [] OTHER -> {}

OpNewOk(o) == [ok |-> TRUE, err |-> "", op |-> o]

OpNewErr(e) == [ok |-> FALSE, err |-> e, op |-> Operation("None", <<>>)]

\* Operation::op(op_code, args)
Operation_op(c, args) ==
    IF Len(args) \in OpArmLen(c)
    THEN OpNewOk(Operation(c, args))
    ELSE OpNewErr("Ill-formed operation")

\* enum Operation: the number of statements the variant of a code holds
VariantLen(c) ==
    CASE c \in {"None", "NewEntry"} -> 0
      [] c \in {"CopyStatement", "GtToNotEqual", "LtToNotEqual"} -> 1
      [] c \in {"SumOf", "ProductOf", "MaxOf"} -> 3
      [] OTHER -> 2

\* the argument statements offered to Operation::op
NewArgStatements ==
    {StatementNone, ValueOf(AkA, SmallValue(1)), Statement("Equal", <<AkA, AkB>>, EMPTY),
     Statement("Gt", <<AkA, AkB>>, EMPTY), Statement("Contains", <<AkA, AkB>>, EMPTY)}

\* the longest argument list offered to Operation::op
MaxOpArgs == 4

NewInit ==
    /\ TreeIdle
    /\ OpIdle
    /\ SerIdle
    /\ MpIdle
    /\ BuilderIdle
    /\ CpIdle
    /\ CvIdle
    /\ op_code \in NativeOperations
    /\ op_args \in UNION {[1..n -> NewArgStatements] : n \in 0..MaxOpArgs}
    /\ op_phase_new = "input"
    /\ op_res = OpNewErr("")

\* the call Operation::op(op_code, &op_args)
OpNew ==
    /\ op_phase_new = "input"
    /\ op_res' = Operation_op(op_code, op_args)
    /\ op_phase_new' = "formed"
    /\ UNCHANGED <<op_code, op_args, notNew>>

NewNext == OpNew

SpecNew == NewInit /\ [][NewNext]_vars

\* ------------------------------------------------- Statement::to_fields
STATEMENT_ARG_F_LEN == 8

\* NativePredicate as u64
NativePredicate(pred) ==
    CASE pred = "None" -> 0
      [] pred = "ValueOf" -> 1
      [] pred = "Equal" -> 2
      [] pred = "NotEqual" -> 3
      [] pred = "Gt" -> 4
      [] pred = "Lt" -> 5
      [] pred = "Contains" -> 6
      [] pred = "NotContains" -> 7
      [] pred = "SumOf" -> 8
      [] pred = "ProductOf" -> 9
      [] pred = "MaxOf" -> 10

\* StatementArg
StatementArgNone == [t |-> "None", v |-> EMPTY, ak |-> AnchoredKey(NULL, NULL)]

StatementArgLiteral(v) == [t |-> "Literal", v |-> v, ak |-> AnchoredKey(NULL, NULL)]

StatementArgKey(ak) == [t |-> "Key", v |-> EMPTY, ak |-> ak]

\* Statement::args
Statement_args(st) ==
    IF st.pred = "ValueOf"
    THEN <<StatementArgKey(st.aks[1]), StatementArgLiteral(st.value)>>
    ELSE [i \in 1..Len(st.aks) |-> StatementArgKey(st.aks[i])]

\* vec![F::ZERO; n]
Zeros(n) == [i \in 1..n |-> 0]

\* impl ToFields for StatementArg
StatementArg_to_fields(arg) ==
    LET f == CASE arg.t = "None" -> Zeros(STATEMENT_ARG_F_LEN)
               [] arg.t = "Literal" -> arg.v \o Zeros(STATEMENT_ARG_F_LEN - Len(arg.v))
               [] arg.t = "Key" -> arg.ak.pod \o arg.ak.key
    IN  [f |-> f, len |-> STATEMENT_ARG_F_LEN]

\* the fold of Statement::to_fields over the first n arguments
RECURSIVE to_fields_fold(_, _)
to_fields_fold(args, n) ==
    IF n = 0
    THEN [f |-> <<>>, len |-> 0]
    ELSE LET acc == to_fields_fold(args, n - 1)
             fl == StatementArg_to_fields(args[n])
         IN  [f |-> acc.f \o fl.f, len |-> acc.len + fl.len]

\* impl ToFields for Statement
Statement_to_fields(st) ==
    LET vec_statementarg == to_fields_fold(Statement_args(st), Len(Statement_args(st)))
    IN  [f |-> <<NativePredicate(st.pred)>> \o vec_statementarg.f,
         len |-> 1 + vec_statementarg.len]

\* the largest max_statement_args of the Params tried
MaxStatementArgs == 5

SerStatements ==
    {StatementNone} \cup ValueOfs(CmpVals)
    \cup UNION {Binary(p) : p \in {"Equal", "NotEqual", "Gt", "Lt", "Contains", "NotContains"}}
    \cup UNION {Ternary(p) : p \in {"SumOf", "ProductOf", "MaxOf"}}

SerInit ==
    /\ TreeIdle
    /\ OpIdle
    /\ NewIdle
    /\ MpIdle
    /\ BuilderIdle
    /\ CpIdle
    /\ CvIdle
    /\ ser_params \in [max_statement_args : 3..MaxStatementArgs]
    /\ ser_st \in SerStatements
    /\ ser_phase = "input"
    /\ ser_out = [f |-> <<>>, len |-> 0]

\* the call ser_st.to_fields()
ToFields ==
    /\ ser_phase = "input"
    /\ ser_out' = Statement_to_fields(ser_st)
    /\ ser_phase' = "serialised"
    /\ UNCHANGED <<ser_params, ser_st, notSer>>

SerNext == ToFields

SpecSer == SerInit /\ [][SerNext]_vars

\* ------------------------------------------------------------- MockMainPod
\* the Statement of the backend: a predicate code and a vector of arguments
MockStatement(code, args) == [code |-> code, args |-> args]

\* middleware::OperationArg
MidArgNone == [t |-> "None", ak |-> AnchoredKey(NULL, NULL), st |-> MockStatement("None", <<>>)]

MidArgKey(ak) == [t |-> "Key", ak |-> ak, st |-> MockStatement("None", <<>>)]

MidArgStatement(st) == [t |-> "Statement", ak |-> AnchoredKey(NULL, NULL), st |-> st]

\* middleware::Operation: a code and a vector of arguments
MidOperation(code, args) == [code |-> code, args |-> args]

\* OperationArg of the backend
OperationArgNone == [t |-> "None", i |-> 0]

OperationArgIndex(i) == [t |-> "Index", i |-> i]

\* a pod, by the statements pub_statements() returns
Pod(sts) == [pub_statements |-> sts]

\* NoneSignedPod, NoneMainPod
NonePod == Pod(<<>>)

\* v.get(i).unwrap_or(d), i counted from 0
get_or(v, i, d) == IF i < Len(v) THEN v[i + 1] ELSE d

\* fill_pad(v, pad_value, len)
fill_pad(v, pad_value, len) ==
    IF Len(v) > len
    THEN [panic |-> TRUE, v |-> v]
    ELSE [panic |-> FALSE, v |-> v \o [i \in 1..(len - Len(v)) |-> pad_value]]

pad_statement_args(params, args) ==
    fill_pad(args, StatementArgNone, params.max_statement_args)

pad_operation_args(params, args) ==
    fill_pad(args, MidArgNone, params.max_operation_args)

statement_none(params) ==
    MockStatement("None", pad_statement_args(params, <<>>).v)

operation_none(params) ==
    MidOperation("None", pad_operation_args(params, <<>>).v)

\* a region laid out statement by statement: slot j * max_pods + i holds
\* statement j of pod i
pods_region_swapped(params, pods, max_pods, per_pod) ==
    [n \in 1..(max_pods * per_pod) |->
        get_or(get_or(pods, (n - 1) % max_pods, NonePod).pub_statements,
               (n - 1) \div max_pods, statement_none(params))]

\* a region of layout_statements: per_pod slots for each of max_pods pods
pods_region(params, pods, max_pods, per_pod) ==
    [n \in 1..(max_pods * per_pod) |->
        get_or(get_or(pods, (n - 1) \div per_pod, NonePod).pub_statements,
               (n - 1) % per_pod, statement_none(params))]

\* MockMainPod::layout_statements
layout_statements(params, inputs) ==
    LET unpadded ==
            pods_region(params, inputs.signed_pods, params.max_input_signed_pods,
                        params.max_signed_pod_values)
            \o pods_region(params, inputs.main_pods, params.max_input_main_pods,
                           params.max_public_statements)
            \o [n \in 1..params.max_statements |->
                    get_or([i \in 1..Len(inputs.statements) |-> inputs.statements[i][2]],
                           n - 1, statement_none(params))]
        padded == [n \in 1..Len(unpadded) |-> pad_statement_args(params, unpadded[n].args)]
    IN  IF \E n \in 1..Len(unpadded) : padded[n].panic
        THEN [panic |-> TRUE, statements |-> <<>>]
        ELSE [panic |-> FALSE,
              statements |-> [n \in 1..Len(unpadded) |->
                                 MockStatement(unpadded[n].code, padded[n].v)]]

\* the indices (from 0) of the statements op_arg refers to
find_op_arg_matches(statements, op_arg) ==
    IF op_arg.t = "Key"
    THEN {i \in 0..(Len(statements) - 1) :
            /\ statements[i + 1].code = "ValueOf"
            /\ statements[i + 1].args[1].t = "Key"
            /\ statements[i + 1].args[1].ak = op_arg.ak}
    ELSE {i \in 0..(Len(statements) - 1) : statements[i + 1] = op_arg.st}

\* find_map over the enumerated statements takes the last match
find_last(found) == CHOOSE i \in found : \A j \in found : j <= i

\* find_map over the enumerated statements: the first match
find_first(found) == CHOOSE i \in found : \A j \in found : i <= j

\* MockMainPod::find_op_arg; unwrap panics when nothing matches, and the
\* index s.1[0] panics on a ValueOf statement without arguments
find_op_arg(statements, op_arg) ==
    LET found == find_op_arg_matches(statements, op_arg)
        no_args == {i \in 0..(Len(statements) - 1) :
                      statements[i + 1].code = "ValueOf" /\ Len(statements[i + 1].args) = 0}
    IN  IF op_arg.t = "None"
        THEN [panic |-> FALSE, arg |-> OperationArgNone]
        ELSE IF op_arg.t = "Key" /\ \E i \in no_args : \A j \in found : i < j
        THEN [panic |-> TRUE, arg |-> OperationArgNone]
        ELSE IF found = {}
        THEN [panic |-> TRUE, arg |-> OperationArgNone]
        ELSE [panic |-> FALSE, arg |-> OperationArgIndex(find_first(found))]

\* MockMainPod::process_operations
process_operations(params, statements, input_operations) ==
    LET ops == [n \in 1..params.max_statements |->
                   get_or(input_operations, n - 1, operation_none(params))]
        mid_args == [n \in 1..Len(ops) |-> pad_operation_args(params, ops[n].args)]
        args == [n \in 1..Len(ops) |->
                    [k \in 1..Len(mid_args[n].v) |->
                        find_op_arg(statements, mid_args[n].v[k])]]
    IN  IF \E n \in 1..Len(ops) :
              mid_args[n].panic \/ \E k \in 1..Len(args[n]) : args[n][k].panic
        THEN [panic |-> TRUE, operations |-> <<>>]
        ELSE [panic |-> FALSE,
              operations |-> [n \in 1..Len(ops) |->
                                 MidOperation(ops[n].code,
                                              [k \in 1..Len(args[n]) |-> args[n][k].arg])]]

\* the backend Statement of a Statement of the middleware: code() and args()
MockOf(st) == MockStatement(st.pred, Statement_args(st))

\* the largest Params tried
MaxInputPods == 2

MaxStatements == 2

MaxMockArgs == 3

MaxOperationArgs == 2

PodB == <<8, 0, 0, 0>>

KeyC == <<4, 0, 0, 0>>

AkB1 == AnchoredKey(PodB, KeyA)

AkB2 == AnchoredKey(PodB, KeyB)

AkB3 == AnchoredKey(PodB, KeyC)

MpParams ==
    [max_input_signed_pods : 1..MaxInputPods,
     max_input_main_pods : {1},
     max_statements : 1..MaxStatements,
     max_signed_pod_values : {2},
     max_public_statements : {1},
     max_statement_args : 2..MaxMockArgs,
     max_operation_args : 1..MaxOperationArgs]

\* signed pods of one and of three entries
SignedPodSamples ==
    {Pod(<<MockOf(ValueOf(AkB, SmallValue(1)))>>),
     Pod(<<MockOf(ValueOf(AkB1, SmallValue(2))), MockOf(ValueOf(AkB2, SmallValue(3))),
           MockOf(ValueOf(AkB3, SmallValue(4)))>>)}

\* a main pod of two public statements
MainPodSamples ==
    {Pod(<<MockOf(ValueOf(AkB, SmallValue(1))),
           MockOf(Statement("Equal", <<AkB, AkB1>>, EMPTY))>>)}

\* input statements with their public flag
InputStatementSamples ==
    {<<TRUE, MockOf(ValueOf(AkA, SmallValue(5)))>>,
     <<FALSE, MockOf(Statement("Equal", <<AkB, AkB1>>, EMPTY))>>,
     <<TRUE, MockOf(Statement("SumOf", <<AkA, AkB, AkB1>>, EMPTY))>>}

\* input operations; the arguments that are statements are as laid out under
\* params or as the middleware gives them
InputOperationSamples(params) ==
    {MidOperation("NewEntry", <<>>),
     MidOperation("EqualFromEntries", <<MidArgKey(AkB), MidArgKey(AkB1)>>),
     MidOperation("CopyStatement",
                  <<MidArgStatement(MockOf(ValueOf(AkB, SmallValue(1))))>>),
     MidOperation("CopyStatement",
                  <<MidArgStatement(
                      MockStatement("Equal",
                          pad_statement_args(params,
                              Statement_args(Statement("Equal", <<AkB, AkB1>>, EMPTY))).v))>>)}

\* the sequences of at most n elements of S
SeqUpTo(S, n) == UNION {[1..k -> S] : k \in 0..n}

MpInit ==
    /\ TreeIdle
    /\ OpIdle
    /\ NewIdle
    /\ SerIdle
    /\ BuilderIdle
    /\ CpIdle
    /\ CvIdle
    /\ mp_params \in MpParams
    /\ \E sp \in SeqUpTo(SignedPodSamples, 2), mp \in SeqUpTo(MainPodSamples, 1),
          sts \in SeqUpTo(InputStatementSamples, 2),
          ops \in SeqUpTo(InputOperationSamples(mp_params), 2) :
          mp_inputs = [signed_pods |-> sp, main_pods |-> mp, statements |-> sts,
                       operations |-> ops]
    /\ mp_phase = "input"
    /\ mp_statements = <<>>
    /\ mp_operations = <<>>

\* MockMainPod::new, its first statement
LayoutStatements ==
    /\ mp_phase = "input"
    /\ LET res == layout_statements(mp_params, mp_inputs)
       IN  /\ mp_phase' = IF res.panic THEN "panicked" ELSE "laid"
           /\ mp_statements' = res.statements
    /\ UNCHANGED <<mp_params, mp_inputs, mp_operations, notMp>>

\* MockMainPod::new, its second statement and the construction of Self
ProcessOperations ==
    /\ mp_phase = "laid"
    /\ LET res == process_operations(mp_params, mp_statements, mp_inputs.operations)
       IN  /\ mp_phase' = IF res.panic THEN "panicked" ELSE "done"
           /\ mp_operations' = res.operations
    /\ UNCHANGED <<mp_params, mp_inputs, mp_statements, notMp>>

MpNext ==
    \/ LayoutStatements
    \/ ProcessOperations

SpecMp == MpInit /\ [][MpNext]_vars

\* ---------------------------------------------------------------- frontend
\* hash_str: the Poseidon hash of the bytes of the string
hash_str(str) == <<"hash_str", str>>

\* Origin(PodClass, PodId)
Origin(class, id) == [class |-> class, id |-> id]

\* frontend AnchoredKey(Origin, String)
FrontAnchoredKey(origin, key) == [origin |-> origin, key |-> key]

\* frontend Value
ValueString(str) == [t |-> "String", x |-> str]

ValueInt(i) == [t |-> "Int", x |-> i]

ValueArray(raw) == [t |-> "Array", x |-> raw]

ValueRaw(v) == [t |-> "Raw", x |-> v]

\* impl From<&Value> for middleware::Value
MiddlewareValue(v) ==
    CASE v.t = "String" -> hash_str(v.x)
      [] v.t = "Int" -> ValueFrom(v.x)
      [] v.t = "Array" -> ArrayCommitment(v.x)
      [] v.t = "Raw" -> v.x

\* frontend Statement: as the Statement of the middleware, over frontend
\* anchored keys and values
FrontStatement(pred, aks, value) == [pred |-> pred, aks |-> aks, value |-> value]

FrontStatementNone == FrontStatement("None", <<>>, ValueInt(0))

FrontValueOf(ak, v) == FrontStatement("ValueOf", <<ak>>, v)

FrontBinary(pred, ak1, ak2) == FrontStatement(pred, <<ak1, ak2>>, ValueInt(0))

\* frontend OperationArg
ArgEntry(k, v) == [t |-> "Entry", key |-> k, value |-> v, st |-> FrontStatementNone]

ArgStatement(st) == [t |-> "Statement", key |-> "", value |-> ValueInt(0), st |-> st]

ArgLiteral(v) == [t |-> "Literal", key |-> "", value |-> v, st |-> FrontStatementNone]

\* frontend Operation, by its code() and its args()
FrontOperation(code, args) == [code |-> code, args |-> args]

OperationNewEntry(key, value) == FrontOperation("NewEntry", <<ArgEntry(key, value)>>)

\* frontend SignedPod and MainPod: the id and the pod of the backend
FrontPod(id, sts) == [id |-> id, pod |-> Pod(sts)]

\* impl TryFrom<(&SignedPod, &str)> for OperationArg, for a key the pod has
SignedPodEntry(pod, key) ==
    LET st == CHOOSE s \in {pod.pod.pub_statements[i] : i \in DOMAIN pod.pod.pub_statements} :
                  s.args[1].ak = AnchoredKey(pod.id, hash_str(key))
    IN  ArgStatement(FrontValueOf(FrontAnchoredKey(Origin("Signed", pod.id), key),
                                  ValueRaw(st.args[2].v)))

\* the builder as the methods see it
BuilderSelf ==
    [statements |-> b_statements, operations |-> b_operations,
     public_statements |-> b_public_statements, const_cnt |-> b_const_cnt,
     panic |-> FALSE]

\* format!("c{}", n) with the counter already incremented
const_name_next(n) == "c" \o ToString(n + 1)

\* format!("c{}", self.const_cnt)
const_name(n) == "c" \o ToString(n)

\* the statement of NewEntry anchored at no pod
NewEntryStatement_null(key, value) ==
    FrontValueOf(FrontAnchoredKey(Origin("Main", NULL), key), value)

\* MainPodBuilder::op, the statement of the NewEntry arm
NewEntryStatement(key, value) ==
    FrontValueOf(FrontAnchoredKey(Origin("Main", SELF), key), value)

\* MainPodBuilder::op, its end: the operation and the statement are pushed
op_push(self, public, o, st) ==
    [self EXCEPT !.operations = Append(@, o),
                 !.public_statements = IF public THEN Append(@, st) ELSE @,
                 !.statements = Append(@, st)]

\* MainPodBuilder::op_args_entries over the first n arguments; a literal is
\* turned into a new entry by a call of op with the same public flag
RECURSIVE op_args_entries(_, _, _, _)
op_args_entries(self, public, args, n) ==
    IF n = 0
    THEN [self |-> self, st_args |-> <<>>]
    ELSE LET prev == op_args_entries(self, public, args, n - 1)
             arg == args[n]
             k == const_name(prev.self.const_cnt)
         IN  IF prev.self.panic
             THEN prev
             ELSE IF arg.t = "Statement" /\ arg.st.pred = "ValueOf"
             THEN [self |-> prev.self, st_args |-> Append(prev.st_args, arg.st.aks[1])]
             ELSE IF arg.t = "Literal"
             THEN [self |-> op_push([prev.self EXCEPT !.const_cnt = @ + 1], public,
                                    OperationNewEntry(k, arg.value),
                                    NewEntryStatement(k, arg.value)),
                   st_args |-> Append(prev.st_args,
                                      NewEntryStatement(k, arg.value).aks[1])]
             ELSE [self |-> [prev.self EXCEPT !.panic = TRUE], st_args |-> prev.st_args]

\* the predicate the operations on entries derive
EntriesPredicate(code) ==
    CASE code = "EqualFromEntries" -> "Equal"
      [] code = "NotEqualFromEntries" -> "NotEqual"
      [] code = "GtFromEntries" -> "Gt"
      [] code = "LtFromEntries" -> "Lt"
      [] code = "ContainsFromEntries" -> "Contains"
      [] code = "NotContainsFromEntries" -> "NotContains"

\* MainPodBuilder::op(&mut self, public, op); the arms that are todo!() panic
MainPodBuilder_op(self, public, o) ==
    CASE o.code = "None" -> op_push(self, public, o, FrontStatementNone)
      [] o.code = "NewEntry" ->
            op_push(self, public, o, NewEntryStatement(o.args[1].key, o.args[1].value))
      [] o.code = "CopyStatement" -> op_push(self, public, o, o.args[1].st)
      [] o.code \in {"EqualFromEntries", "NotEqualFromEntries", "GtFromEntries",
                     "LtFromEntries", "ContainsFromEntries", "NotContainsFromEntries"} ->
            LET r == op_args_entries(self, public, o.args, Len(o.args))
            IN  IF r.self.panic
                THEN r.self
                ELSE op_push(r.self, public, o,
                             FrontBinary(EntriesPredicate(o.code), r.st_args[1], r.st_args[2]))
      [] OTHER -> [self EXCEPT !.panic = TRUE]

\* MainPodCompiler::compile_anchored_key
compile_anchored_key(key) == AnchoredKey(key.origin.id, hash_str(key.key))

\* MainPodCompiler::compile_st
compile_st(st) ==
    Statement(st.pred, [i \in 1..Len(st.aks) |-> compile_anchored_key(st.aks[i])],
              IF st.pred = "ValueOf" THEN MiddlewareValue(st.value) ELSE EMPTY)

\* MainPodCompiler::compile_op: an argument that is not a statement panics
compile_op(o) ==
    IF o.code \in {"None", "NewEntry"}
    THEN [panic |-> FALSE, op |-> Operation(o.code, <<>>)]
    ELSE IF \E i \in 1..Len(o.args) : o.args[i].t # "Statement"
    THEN [panic |-> TRUE, op |-> Operation("None", <<>>)]
    ELSE [panic |-> FALSE,
          op |-> Operation(o.code, [i \in 1..Len(o.args) |-> compile_st(o.args[i].st)])]

\* MainPodCompiler::compile: zip_eq panics on lists of different lengths
compile(pars, sts, ops, public_sts) ==
    IF \/ Len(sts) # Len(ops)
       \/ \E i \in 1..Len(ops) : compile_op(ops[i]).panic
       \/ Len(sts) > pars.max_statements
    THEN [panic |-> TRUE, statements |-> <<>>, operations |-> <<>>,
          public_statements |-> <<>>]
    ELSE [panic |-> FALSE,
          statements |-> [i \in 1..Len(sts) |-> compile_st(sts[i])],
          operations |-> [i \in 1..Len(ops) |-> compile_op(ops[i]).op],
          public_statements |-> [i \in 1..Len(public_sts) |-> compile_st(public_sts[i])]]

\* the input statements of the backend: each compiled statement with the
\* flag that it is to be public
input_statements(compiled) ==
    [i \in 1..Len(compiled.statements) |->
        <<\E j \in 1..Len(compiled.public_statements) :
              compiled.public_statements[j] = compiled.statements[i],
          MockOf(compiled.statements[i])>>]

\* the input operations of the backend: an entry argument is referred to by
\* its key, any other argument by the statement as laid out
input_operations(pars, compiled) ==
    [i \in 1..Len(compiled.operations) |->
        MidOperation(compiled.operations[i].code,
            [k \in 1..Len(compiled.operations[i].args) |->
                LET st == compiled.operations[i].args[k]
                IN  IF st.pred = "ValueOf"
                    THEN MidArgKey(st.aks[1])
                    ELSE MidArgStatement(
                             MockStatement(st.pred,
                                 pad_statement_args(pars, Statement_args(st)).v))])]

\* MainPodBuilder::prove with the MockProver: compile, then MockMainPod::new
prove_main_pod(pars, signed_pods, main_pods, sts, ops, public_sts) ==
    LET compiled == compile(pars, sts, ops, public_sts)
        inputs == [signed_pods |-> [i \in 1..Len(signed_pods) |-> signed_pods[i].pod],
                   main_pods |-> [i \in 1..Len(main_pods) |-> main_pods[i].pod],
                   statements |-> input_statements(compiled),
                   operations |-> input_operations(pars, compiled)]
        laid == layout_statements(pars, inputs)
        processed == process_operations(pars, laid.statements, inputs.operations)
    IN  IF compiled.panic \/ laid.panic \/ processed.panic
        THEN [panic |-> TRUE, statements |-> <<>>, operations |-> <<>>]
        ELSE [panic |-> FALSE, statements |-> laid.statements,
              operations |-> processed.operations]

\* Params::default()
DefaultParams ==
    [max_input_signed_pods |-> 3, max_input_main_pods |-> 3, max_statements |-> 20,
     max_signed_pod_values |-> 8, max_public_statements |-> 10,
     max_statement_args |-> 5, max_operation_args |-> 5]

\* Params every bound of which the calls below can exceed
SmallParams ==
    [max_input_signed_pods |-> 1, max_input_main_pods |-> 1, max_statements |-> 3,
     max_signed_pod_values |-> 2, max_public_statements |-> 1,
     max_statement_args |-> 2, max_operation_args |-> 1]

\* the calls of op, pub_op and insert on one builder
MaxCalls == 4

\* the integers of the ZuKYC example, scaled to the word of the model:
\* dateOfBirth < now_minus_18y and startDate = now_minus_1y
DateOfBirth == 1

NowMinus18y == 2

NowMinus1y == 5

\* zu_kyc_sign_pod_builders, signed: the pods by their entries
GovId ==
    FrontPod(PodA,
        <<MockOf(ValueOf(AnchoredKey(PodA, hash_str("idNumber")), hash_str("4242424242"))),
          MockOf(ValueOf(AnchoredKey(PodA, hash_str("dateOfBirth")), ValueFrom(DateOfBirth))),
          MockOf(ValueOf(AnchoredKey(PodA, hash_str("socialSecurityNumber")),
                         hash_str("G2121210")))>>)

PayStub ==
    FrontPod(PodB,
        <<MockOf(ValueOf(AnchoredKey(PodB, hash_str("socialSecurityNumber")),
                         hash_str("G2121210"))),
          MockOf(ValueOf(AnchoredKey(PodB, hash_str("startDate")), ValueFrom(NowMinus1y)))>>)

PodC == <<9, 0, 0, 0>>

\* a main pod of two public statements
InputMainPod ==
    FrontPod(PodC,
        <<MockOf(ValueOf(AnchoredKey(PodC, hash_str("age")), ValueFrom(NowMinus18y))),
          MockOf(Statement("Equal", <<AnchoredKey(PodC, hash_str("age")),
                                      AnchoredKey(PodC, hash_str("age"))>>, EMPTY))>>)

\* the sanction list, by its root
SanctionList == ValueRaw(SmallValue(1))

\* zu_kyc_pod_builder, its four operations
ZuKycNotContains ==
    FrontOperation("NotContainsFromEntries",
                   <<ArgLiteral(SanctionList), SignedPodEntry(GovId, "idNumber")>>)

ZuKycLt ==
    FrontOperation("LtFromEntries",
                   <<SignedPodEntry(GovId, "dateOfBirth"), ArgLiteral(ValueInt(NowMinus18y))>>)

ZuKycEqSsn ==
    FrontOperation("EqualFromEntries",
                   <<SignedPodEntry(GovId, "socialSecurityNumber"),
                     SignedPodEntry(PayStub, "socialSecurityNumber")>>)

ZuKycEqStart ==
    FrontOperation("EqualFromEntries",
                   <<SignedPodEntry(PayStub, "startDate"), ArgLiteral(ValueInt(NowMinus1y))>>)

\* an operation on two literals
LtLiterals ==
    FrontOperation("LtFromEntries",
                   <<ArgLiteral(ValueInt(DateOfBirth)), ArgLiteral(ValueInt(NowMinus18y))>>)

\* an entry the user makes
UserEntry == OperationNewEntry("age", ValueInt(NowMinus18y))

\* an operation the builder has no arm for
GtToNotEqualOp ==
    FrontOperation("GtToNotEqual",
        <<ArgStatement(FrontBinary("Gt", SignedPodEntry(PayStub, "startDate").st.aks[1],
                                   SignedPodEntry(GovId, "dateOfBirth").st.aks[1]))>>)

\* the calls of pub_op and of op
PubOps == {ZuKycNotContains, ZuKycLt, ZuKycEqSsn, ZuKycEqStart, UserEntry}

PrivateOps == {LtLiterals, UserEntry, GtToNotEqualOp}

\* the pairs given to insert: statements over keys no entry was made for
InsertSamples ==
    {<<FrontBinary("Equal", FrontAnchoredKey(Origin("Signed", PodB), "employer"),
                   FrontAnchoredKey(Origin("Main", SELF), "employer")),
       FrontOperation("None", <<>>)>>,
     <<FrontStatement("SumOf",
                      <<FrontAnchoredKey(Origin("Main", SELF), "total"),
                        FrontAnchoredKey(Origin("Main", SELF), "net"),
                        FrontAnchoredKey(Origin("Main", SELF), "tax")>>, ValueInt(0)),
       FrontOperation("None", <<>>)>>}

\* MainPodBuilder::new(params)
BuilderInit ==
    /\ TreeIdle
    /\ OpIdle
    /\ NewIdle
    /\ SerIdle
    /\ MpIdle
    /\ CpIdle
    /\ CvIdle
    /\ \/ b_params = DefaultParams /\ calls_left = MaxCalls
       \/ b_params = SmallParams /\ calls_left = MaxCalls - 1
    /\ b_input_signed_pods = <<>>
    /\ b_input_main_pods = <<>>
    /\ b_statements = <<>>
    /\ b_operations = <<>>
    /\ b_public_statements = <<>>
    /\ b_const_cnt = 0
    /\ builder_phase = "building"
    /\ main_pod = [statements |-> <<>>, operations |-> <<>>]

\* MainPodBuilder::add_signed_pod; the user adds gov_id, then pay_stub
AddSignedPod ==
    /\ builder_phase = "building"
    /\ Len(b_input_signed_pods) < 2
    /\ b_input_signed_pods' =
           Append(b_input_signed_pods,
                  IF b_input_signed_pods = <<>> THEN GovId ELSE PayStub)
    /\ UNCHANGED <<b_params, b_input_main_pods, b_statements, b_operations,
                   b_public_statements, b_const_cnt, builder_phase, calls_left,
                   main_pod, notBuilder>>

\* MainPodBuilder::add_main_pod
AddMainPod ==
    /\ builder_phase = "building"
    /\ Len(b_input_main_pods) < 2
    /\ b_input_main_pods' = Append(b_input_main_pods, InputMainPod)
    /\ UNCHANGED <<b_params, b_input_signed_pods, b_statements, b_operations,
                   b_public_statements, b_const_cnt, builder_phase, calls_left,
                   main_pod, notBuilder>>

\* MainPodBuilder::insert
Insert ==
    /\ builder_phase = "building"
    /\ calls_left > 0
    /\ \E st_op \in InsertSamples :
          /\ b_statements' = Append(b_statements, st_op[1])
          /\ b_operations' = Append(b_operations, st_op[2])
    /\ calls_left' = calls_left - 1
    /\ UNCHANGED <<b_params, b_input_signed_pods, b_input_main_pods,
                   b_public_statements, b_const_cnt, builder_phase, main_pod,
                   notBuilder>>

\* a call of MainPodBuilder::op; a panic leaves the builder to be dropped
CallOp(public, o) ==
    LET after == MainPodBuilder_op(BuilderSelf, public, o)
    IN  /\ builder_phase = "building"
        /\ calls_left > 0
        /\ calls_left' = calls_left - 1
        /\ IF after.panic
           THEN /\ builder_phase' = "panicked"
                /\ UNCHANGED <<b_statements, b_operations, b_public_statements,
                               b_const_cnt>>
           ELSE /\ builder_phase' = "building"
                /\ b_statements' = after.statements
                /\ b_operations' = after.operations
                /\ b_public_statements' = after.public_statements
                /\ b_const_cnt' = after.const_cnt
        /\ UNCHANGED <<b_params, b_input_signed_pods, b_input_main_pods, main_pod,
                       notBuilder>>

\* MainPodBuilder::pub_op
PubOp == \E o \in PubOps : CallOp(TRUE, o)

\* MainPodBuilder::op(false, op)
Op == \E o \in PrivateOps : CallOp(FALSE, o)

\* MainPodBuilder::prove with the MockProver
BuilderProve ==
    LET pod == prove_main_pod(b_params, b_input_signed_pods, b_input_main_pods,
                              b_statements, b_operations, b_public_statements)
    IN  /\ builder_phase = "building"
        /\ builder_phase' = IF pod.panic THEN "panicked" ELSE "proved"
        /\ main_pod' = [statements |-> pod.statements, operations |-> pod.operations]
        /\ UNCHANGED <<b_params, b_input_signed_pods, b_input_main_pods, b_statements,
                       b_operations, b_public_statements, b_const_cnt, calls_left,
                       notBuilder>>

BuilderNext ==
    \/ AddSignedPod
    \/ AddMainPod
    \/ Insert
    \/ PubOp
    \/ Op
    \/ BuilderProve

SpecBuilder == BuilderInit /\ [][BuilderNext]_vars

\* ------------------------------------------------------ custom predicates
\* HashOrWildcardStr
HashStr(h) == [t |-> "Hash", h |-> h, name |-> ""]

WildcardStr(name) == [t |-> "Wildcard", h |-> NULL, name |-> name]

\* HashOrWildcard
HashOrWildcardHash(h) == [t |-> "Hash", h |-> h, n |-> 0]

HashOrWildcardWildcard(n) == [t |-> "Wildcard", h |-> NULL, n |-> n]

\* BuilderArg
BuilderArgLiteral(v) ==
    [t |-> "Literal", v |-> v, pod_id |-> HashStr(NULL), key |-> HashStr(NULL)]

BuilderArgKey(pod_id, key) == [t |-> "Key", v |-> EMPTY, pod_id |-> pod_id, key |-> key]

\* StatementTmplArg
StatementTmplArgLiteral(v) ==
    [t |-> "Literal", v |-> v, pod_id |-> HashOrWildcardHash(NULL),
     key |-> HashOrWildcardHash(NULL)]

StatementTmplArgKey(pod_id, key) ==
    [t |-> "Key", v |-> EMPTY, pod_id |-> pod_id, key |-> key]

\* Predicate
PredicateNative(p) == [t |-> "Native", p |-> p, i |-> 0]

PredicateBatchSelf(i) == [t |-> "BatchSelf", p |-> "None", i |-> i]

\* StatementTmplBuilder
StatementTmplBuilder(predicate, args) == [predicate |-> predicate, args |-> args]

\* StatementTmpl(Predicate, Vec<StatementTmplArg>)
StatementTmpl(predicate, args) == <<predicate, args>>

\* CustomPredicate
CustomPredicate(conjunction, statements, args_len) ==
    [conjunction |-> conjunction, statements |-> statements, args_len |-> args_len]

\* CustomPredicateBatch
CustomPredicateBatch(predicates) == [predicates |-> predicates]

\* the indices of name in priv_args chained with args
wildcard_matches_priv_first(args, priv_args, name) ==
    {i \in 0..(Len(priv_args \o args) - 1) : (priv_args \o args)[i + 1] = name}

\* the indices (from 0) of name in args chained with priv_args
wildcard_matches(args, priv_args, name) ==
    {i \in 0..(Len(args \o priv_args) - 1) : (args \o priv_args)[i + 1] = name}

\* resolve_wildcard; unwrap panics on a name that is in neither list
resolve_wildcard(args, priv_args, v) ==
    IF v.t = "Hash"
    THEN [panic |-> FALSE, v |-> HashOrWildcardHash(v.h)]
    ELSE IF wildcard_matches(args, priv_args, v.name) = {}
    THEN [panic |-> TRUE, v |-> HashOrWildcardWildcard(0)]
    ELSE [panic |-> FALSE,
          v |-> HashOrWildcardWildcard(find_first(wildcard_matches(args, priv_args, v.name)))]

\* the closure of CustomPredicateBatchBuilder::predicate over one argument
resolve_arg(args, priv_args, a) ==
    IF a.t = "Literal"
    THEN [panic |-> FALSE, arg |-> StatementTmplArgLiteral(a.v)]
    ELSE [panic |-> resolve_wildcard(args, priv_args, a.pod_id).panic
                    \/ resolve_wildcard(args, priv_args, a.key).panic,
          arg |-> StatementTmplArgKey(resolve_wildcard(args, priv_args, a.pod_id).v,
                                      resolve_wildcard(args, priv_args, a.key).v)]

\* the reference to the predicate pushed first
batch_self_first(predicates) == PredicateBatchSelf(0)

\* Predicate::BatchSelf(self.predicates.len() - 1)
batch_self_last(predicates) == PredicateBatchSelf(Len(predicates) - 1)

\* CustomPredicateBatchBuilder::predicate
predicate(predicates, conjunction, args, priv_args, sts) ==
    LET statements ==
            [n \in 1..Len(sts) |->
                StatementTmpl(sts[n].predicate,
                    [k \in 1..Len(sts[n].args) |->
                        resolve_arg(args, priv_args, sts[n].args[k]).arg])]
        pushed == Append(predicates, CustomPredicate(conjunction, statements, Len(args)))
    IN  IF \E n \in 1..Len(sts) : \E k \in 1..Len(sts[n].args) :
              resolve_arg(args, priv_args, sts[n].args[k]).panic
        THEN [panic |-> TRUE, predicates |-> predicates, ret |-> PredicateBatchSelf(0)]
        ELSE [panic |-> FALSE, predicates |-> pushed, ret |-> batch_self_last(pushed)]

\* the predicates one batch holds, the names of a predicate, the wildcard
\* names the templates use
MaxPredicates == 2

MaxNames == 2

Names == {"src", "dst"}

\* the names given as args are of at most MaxNames names, with repetitions
ArgNames == SeqUpTo(Names, MaxNames)

PrivArgNames == {<<>>, <<"src">>, <<"attestation_pod">>}

\* templates over the names: one of literal keys, one of wildcards only that
\* refers to the first predicate of the batch, one with a private name
TemplateSamples ==
    {<<StatementTmplBuilder(PredicateNative("Equal"),
          <<BuilderArgKey(WildcardStr("src"), HashStr(hash_str("signer"))),
            BuilderArgKey(WildcardStr("dst"), HashStr(hash_str("signer")))>>)>>,
     <<StatementTmplBuilder(PredicateBatchSelf(0),
          <<BuilderArgKey(WildcardStr("dst"), WildcardStr("src"))>>),
       StatementTmplBuilder(PredicateNative("ValueOf"),
          <<BuilderArgKey(WildcardStr("src"), HashStr(hash_str("type"))),
            BuilderArgLiteral(SmallValue(1))>>)>>,
     <<StatementTmplBuilder(PredicateNative("ValueOf"),
          <<BuilderArgKey(WildcardStr("attestation_pod"), WildcardStr("src")),
            BuilderArgLiteral(SmallValue(1))>>)>>}

\* CustomPredicateBatchBuilder::new()
CpInit ==
    /\ TreeIdle
    /\ OpIdle
    /\ NewIdle
    /\ SerIdle
    /\ MpIdle
    /\ BuilderIdle
    /\ CvIdle
    /\ cp_predicates = <<>>
    /\ cp_calls = <<>>
    /\ cp_returned = <<>>
    /\ cp_phase = "building"
    /\ cp_batch = CustomPredicateBatch(<<>>)

\* a call of CustomPredicateBatchBuilder::predicate
CallPredicate(conjunction) ==
    /\ cp_phase = "building"
    /\ Len(cp_predicates) < MaxPredicates
    /\ \E args \in ArgNames, priv_args \in PrivArgNames, sts \in TemplateSamples :
          LET res == predicate(cp_predicates, conjunction, args, priv_args, sts)
              call == [conjunction |-> conjunction, args |-> args,
                       priv_args |-> priv_args, sts |-> sts]
          IN  IF res.panic
              THEN /\ cp_phase' = "panicked"
                   /\ cp_calls' = Append(cp_calls, call)
                   /\ UNCHANGED <<cp_predicates, cp_returned>>
              ELSE /\ cp_phase' = "building"
                   /\ cp_predicates' = res.predicates
                   /\ cp_calls' = Append(cp_calls, call)
                   /\ cp_returned' = Append(cp_returned, res.ret)
    /\ UNCHANGED <<cp_batch, notCp>>

\* CustomPredicateBatchBuilder::predicate_and
PredicateAnd == CallPredicate(TRUE)

\* CustomPredicateBatchBuilder::predicate_or
PredicateOr == CallPredicate(FALSE)

\* CustomPredicateBatchBuilder::finish
Finish ==
    /\ cp_phase = "building"
    /\ cp_phase' = "finished"
    /\ cp_batch' = CustomPredicateBatch(cp_predicates)
    /\ UNCHANGED <<cp_predicates, cp_calls, cp_returned, notCp>>

CpNext ==
    \/ PredicateAnd
    \/ PredicateOr
    \/ Finish

SpecCp == CpInit /\ [][CpNext]_vars

\* ------------------------------------------------------------ conversions
\* the order of the field F (Goldilocks, 2^64 - 2^32 + 1) at the model's width
FieldOrder == Word - Half + 1

\* every i64
I64 == I64Min..I64Max

\* the Values of canonical limbs, the upper two limbs zero or one
LimbValues ==
    {<<a, b, c, d>> : a \in 0..(FieldOrder - 1), b \in 0..(FieldOrder - 1),
                       c \in 0..1, d \in 0..1}

\* two integers to embed and compare, or a Value to convert
CvInit ==
    /\ TreeIdle
    /\ OpIdle
    /\ NewIdle
    /\ SerIdle
    /\ MpIdle
    /\ BuilderIdle
    /\ CpIdle
    /\ \/ \E x \in I64, y \in I64 :
             cv_in = [kind |-> "i64", x |-> x, y |-> y, v |-> EMPTY]
       \/ \E v \in LimbValues :
             cv_in = [kind |-> "Value", x |-> 0, y |-> 0, v |-> v]
    /\ cv_phase = "input"
    /\ cv_out = <<>>

\* Value::from(x), Value::from(y), the conversion of the first back to i64,
\* the comparison of the two and the checks of Lt and Gt over entries of them
FromI64 ==
    /\ cv_phase = "input"
    /\ cv_in.kind = "i64"
    /\ cv_phase' = "converted"
    /\ cv_out' =
           [vx |-> ValueFrom(cv_in.x),
            vy |-> ValueFrom(cv_in.y),
            back |-> try_into_i64(ValueFrom(cv_in.x)),
            cmp |-> value_cmp(ValueFrom(cv_in.x), ValueFrom(cv_in.y), 4),
            lt |-> check(Operation("LtFromEntries",
                                   <<ValueOf(AkA, ValueFrom(cv_in.x)),
                                     ValueOf(AkB, ValueFrom(cv_in.y))>>),
                         Statement("Lt", <<AkA, AkB>>, EMPTY), TRUE),
            gt |-> check(Operation("GtFromEntries",
                                   <<ValueOf(AkA, ValueFrom(cv_in.x)),
                                     ValueOf(AkB, ValueFrom(cv_in.y))>>),
                         Statement("Gt", <<AkA, AkB>>, EMPTY), TRUE)]
    /\ UNCHANGED <<cv_in, notCv>>

\* value.try_into() of a Value
TryIntoI64 ==
    /\ cv_phase = "input"
    /\ cv_in.kind = "Value"
    /\ cv_phase' = "converted"
    /\ cv_out' = [back |-> try_into_i64(cv_in.v)]
    /\ UNCHANGED <<cv_in, notCv>>

CvNext ==
    \/ FromI64
    \/ TryIntoI64

SpecCv == CvInit /\ [][CvNext]_vars

\* The calls on a built tree take &self and leave it unchanged, so the result
\* of a call does not depend on the calls before it: each call is made on the
\* tree as built (last.op = "none"), and verify on the proof prove returned.
Init ==
    TreeInit /\ OpIdle /\ NewIdle /\ SerIdle /\ MpIdle /\ BuilderIdle /\ CpIdle /\ CvIdle

Next ==
    \/ NewAddLeaf
    \/ NewComputeHash
    \/ Get
    \/ Prove
    \/ Verify
    \/ ProveNonexistence
    \/ VerifyNonexistence

Spec == Init /\ [][Next]_vars

\* ------------------------------------------------- the build of the tree
\* the bits of a key: 8 * bytes.len() of keypath
KeyBits == 8 * 32

\* MerkleTree::new with max_depth up to MaxDepth or one more than the bits
\* of a key
BuildInit ==
    /\ OpIdle
    /\ NewIdle
    /\ SerIdle
    /\ MpIdle
    /\ BuilderIdle
    /\ CpIdle
    /\ CvIdle
    /\ max_depth \in (1..MaxDepth) \cup {KeyBits + 1}
    /\ kvs \in KvsInputs
    /\ pending = DOMAIN kvs
    /\ root = IntermediateEmpty
    /\ status = "building"
    /\ build_err = ""
    /\ last = NoCall

BuildNext ==
    \/ NewAddLeaf
    \/ NewComputeHash

SpecBuild == BuildInit /\ [][BuildNext]_vars

\* ------------------------------------------------------- claims on the tree
\* bit n (from 0) of the key path of k
PathBit(k, n) == ToBytesBit(k, n)

\* two distinct keys of kvs share their first max_depth path bits
MustFail ==
    \E k1, k2 \in DOMAIN kvs :
        /\ k1 # k2
        /\ \A n \in 0..(max_depth - 1) : PathBit(k1, n) = PathBit(k2, n)

\* the tree that the set of pairs alone determines: the root is an
\* intermediate node; below it no key is an empty child, a single key is a
\* leaf, and several keys are split by their next path bit
RECURSIVE CanonNode(_, _)
CanonNode(S, lvl) ==
    IF S = {} /\ lvl >= 1
    THEN NodeNone
    ELSE IF Cardinality(S) = 1 /\ lvl >= 1
    THEN LET k == CHOOSE x \in S : TRUE
         IN  LeafNew(keypath(max_depth, k).path, k, kvs[k])
    ELSE [t |-> "Intermediate", hash |-> NoHash,
          left |-> CanonNode({k \in S : ~PathBit(k, lvl)}, lvl + 1),
          right |-> CanonNode({k \in S : PathBit(k, lvl)}, lvl + 1)]

\* C1: the built tree and its root depend only on the set of (k, v) pairs, not
\* on the order in which MerkleTree::new visits them: every order that
\* succeeds yields the tree the set determines, and whether the construction
\* fails is decided by the set and max_depth alone.
C1_BuildDeterminism ==
    /\ status = "built" =>
          /\ ~MustFail
          /\ root = compute_hash(CanonNode(DOMAIN kvs, 0))
    /\ status = "failed" => MustFail

\* a built tree of three leaves in which two colliding leaves were pushed down
C1_Witness ==
    /\ status = "built"
    /\ Cardinality(DOMAIN kvs) = 3
    /\ \/ root.left.t = "Intermediate"
       \/ root.right.t = "Intermediate"

\* C2: for every (k, v) of a built tree, prove(k) succeeds with value v and
\* verify accepts the returned proof for (k, v), at every leaf depth.
C2_ProveVerifyRoundTrip ==
    /\ (status = "built" /\ last.op = "prove" /\ last.key \in DOMAIN kvs) =>
          /\ last.res.ok
          /\ last.res.value = kvs[last.key]
          /\ verify(max_depth, root_hash, last.res.proof, last.key, kvs[last.key]) = ""
    /\ (status = "built" /\ last.op = "verify" /\ last.key \in DOMAIN kvs
            /\ last.proof = last.res.proof /\ last.value = kvs[last.key]) =>
          last.res.ok

\* C3: get(k) and prove(k) fail with "leaf not found" for every key k that is
\* not a key of kvs, whether the descent ends at an empty child or at a leaf
\* stored under another key.
C3_MissingKeyNotFound ==
    (status = "built" /\ last.op \in {"get", "prove"} /\ last.key \notin DOMAIN kvs) =>
        /\ ~last.res.ok
        /\ last.res.err = "leaf not found"

\* C4: with an injective hash, verify rejects the proof of (k, v) for every
\* other value, and rejects every proof obtained by replacing one sibling with
\* a different hash.
C4_ProofSoundness ==
    (/\ status = "built"
     /\ last.op = "verify"
     /\ last.key \in DOMAIN kvs
     /\ \/ last.value # kvs[last.key]
        \/ last.proof # last.res.proof) =>
        ~last.res.ok

\* verify has rejected a proof of a key of kvs whose second sibling was replaced
C4_Witness ==
    /\ status = "built"
    /\ last.op = "verify"
    /\ last.key \in DOMAIN kvs
    /\ last.value = kvs[last.key]
    /\ Len(last.proof.siblings) >= 2
    /\ last.proof.siblings[2] # last.res.proof.siblings[2]
    /\ last.res.err = "proof of inclusion does not verify"

\* C5: prove_nonexistence(k) returns a proof for every key k that is not in
\* kvs and verify_nonexistence accepts it; no non-existence proof verifies for
\* a key that is in kvs.
C5_NonexistenceRoundTrip ==
    /\ (status = "built" /\ last.op = "prove_nonexistence"
            /\ last.key \notin DOMAIN kvs) =>
          /\ last.res.ok
          /\ verify_nonexistence(root_hash, last.res.proof, last.key) = ""
    /\ (status = "built" /\ last.op = "verify_nonexistence"
            /\ last.key \in DOMAIN kvs) =>
          ~last.res.ok

\* ------------------------------------------- claims on the operation checker
\* a is before b in the lexicographic order of the limbs, limb 3 (the fourth)
\* the most significant
LexLess(a, b) ==
    \E i \in 1..4 : a[i] < b[i] /\ \A j \in (i + 1)..4 : a[j] = b[j]

\* the i64 integer a Value of the embedding stands for
IntOf(v) ==
    LET u == v[1] + v[2] * Half IN IF u > I64Max THEN u - Word ELSE u

IntMax(x, y) == IF x >= y THEN x ELSE y

\* the arrays whose commitments are among the inputs, and the elements of the
\* array committed to by c
SampleArrays == {<<>>, SampleArray}

Members(c) ==
    UNION {{r[i] : i \in DOMAIN r} : r \in {q \in SampleArrays : ArrayCommitment(q) = c}}

\* the statement st holds when the anchored keys have the values env gives them
Holds(st, env) ==
    CASE st.pred = "ValueOf" -> env[st.aks[1]] = st.value
      [] st.pred = "Equal" -> env[st.aks[1]] = env[st.aks[2]]
      [] st.pred = "NotEqual" -> env[st.aks[1]] # env[st.aks[2]]
      [] st.pred = "Gt" -> LexLess(env[st.aks[2]], env[st.aks[1]])
      [] st.pred = "Lt" -> LexLess(env[st.aks[1]], env[st.aks[2]])
      [] st.pred = "Contains" -> env[st.aks[2]] \in Members(env[st.aks[1]])
      [] st.pred = "NotContains" -> env[st.aks[2]] \notin Members(env[st.aks[1]])
      [] st.pred = "SumOf" ->
            IntOf(env[st.aks[1]]) = IntOf(env[st.aks[2]]) + IntOf(env[st.aks[3]])
      [] st.pred = "ProductOf" ->
            IntOf(env[st.aks[1]]) = IntOf(env[st.aks[2]]) * IntOf(env[st.aks[3]])
      [] st.pred = "MaxOf" ->
            IntOf(env[st.aks[1]]) = IntMax(IntOf(env[st.aks[2]]), IntOf(env[st.aks[3]]))
      [] OTHER -> TRUE

\* the values the anchored keys of the statements of o can have
Universe(o) ==
    IF o.code \in {"ContainsFromEntries", "NotContainsFromEntries", "RenameContainedBy"}
    THEN ContainerVals \cup ElementVals
    ELSE IF o.code \in {"SumOf", "ProductOf", "MaxOf"}
    THEN IntVals
    ELSE CmpVals

ClaimedPreds ==
    {"Equal", "NotEqual", "Gt", "Lt", "Contains", "NotContains", "SumOf",
     "ProductOf", "MaxOf"}

\* the call matched the rule of code c: two entries and an output of pred p
EntriesRule(c, p) ==
    /\ op_phase = "checked"
    /\ op.code = c
    /\ ArgPreds(op) = <<"ValueOf", "ValueOf">>
    /\ out.pred = p

\* the call matched the arithmetic rule of code c
ArithRule(c) ==
    /\ op_phase = "checked"
    /\ op.code = c
    /\ ArgPreds(op) = <<"ValueOf", "ValueOf", "ValueOf">>
    /\ \A i \in 1..3 : op.args[i].value \in IntVals
    /\ out.pred = c

KeysMatch == \A i \in 1..Len(op.args) : out.aks[i] = op.args[i].aks[1]

\* C6: when check(op, out) returns Ok(true) and out is an Equal, NotEqual, Gt,
\* Lt, Contains, NotContains, SumOf, ProductOf or MaxOf statement, out holds
\* for every assignment of values to the anchored keys under which the
\* statements op refers to hold
C6_CheckSound ==
    (op_phase = "checked" /\ check_res = CheckOk(TRUE) /\ out.pred \in ClaimedPreds)
        => \A env \in [AllAKs -> Universe(op)] :
              (\A i \in 1..Len(op.args) : Holds(op.args[i], env)) => Holds(out, env)

\* C7: EqualFromEntries on two entries and an Equal output returns Ok(true)
\* exactly when the values are equal and the keys match, Ok(false) otherwise;
\* NotEqualFromEntries likewise with different values; and replacing the value
\* on either side of a passing EqualFromEntries makes it return Ok(false)
C7_EqualExact ==
    /\ EntriesRule("EqualFromEntries", "Equal") =>
          /\ check_res = CheckOk(op.args[1].value = op.args[2].value /\ KeysMatch)
          /\ check_res = CheckOk(TRUE) =>
                \A v \in CmpVals \ {op.args[1].value} :
                   /\ check(Operation(op.code, <<ValueOf(op.args[1].aks[1], v), op.args[2]>>),
                            out, overflow_checks) = CheckOk(FALSE)
                   /\ check(Operation(op.code, <<op.args[1], ValueOf(op.args[2].aks[1], v)>>),
                            out, overflow_checks) = CheckOk(FALSE)
    /\ EntriesRule("NotEqualFromEntries", "NotEqual") =>
          check_res = CheckOk(op.args[1].value # op.args[2].value /\ KeysMatch)

\* a passing EqualFromEntries on entries of two different anchored keys
C7_Witness ==
    /\ EntriesRule("EqualFromEntries", "Equal")
    /\ op.args[1].aks[1] # op.args[2].aks[1]
    /\ op.args[1].value = SmallValue(1)
    /\ check_res = CheckOk(TRUE)

\* C8: the order of Value and of Hash is the lexicographic order of the limbs
\* with limb 3 most significant, it is total, and GtFromEntries (LtFromEntries)
\* on two entries and a Gt (Lt) output returns Ok(true) exactly when the first
\* value is greater (less) in that order and the keys match
C8_ValueOrder ==
    /\ value_gt(<<0, 0, 0, 1>>, <<0, 0, 0, 0>>)
    /\ value_gt(<<0, 0, 0, 1>>, <<5, 5, 5, 0>>)
    /\ \A c \in {"GtFromEntries", "LtFromEntries"}, p \in {"Gt", "Lt"} :
          EntriesRule(c, p) =>
             LET v1 == op.args[1].value
                 v2 == op.args[2].value
             IN  /\ value_cmp(v1, v2, 4) = "Less" <=> LexLess(v1, v2)
                 /\ value_cmp(v1, v2, 4) = "Greater" <=> LexLess(v2, v1)
                 /\ value_cmp(v1, v2, 4) = "Equal" <=> v1 = v2
                 /\ hash_cmp(v1, v2) = value_cmp(v1, v2, 4)
    /\ EntriesRule("GtFromEntries", "Gt") =>
          check_res = CheckOk(LexLess(op.args[2].value, op.args[1].value) /\ KeysMatch)
    /\ EntriesRule("LtFromEntries", "Lt") =>
          check_res = CheckOk(LexLess(op.args[1].value, op.args[2].value) /\ KeysMatch)

\* a passing GtFromEntries where only the most significant limb decides
C8_Witness ==
    /\ EntriesRule("GtFromEntries", "Gt")
    /\ op.args[1].value = <<0, 0, 0, 1>>
    /\ op.args[2].value = <<5, 5, 5, 0>>
    /\ check_res = CheckOk(TRUE)

\* C9: SumOf on three entries holding embedded i64 integers x1, x2, x3 and a
\* SumOf output returns Ok(true) exactly when x1 = x2 + x3 and the keys match,
\* and Ok(false) otherwise
C9_SumOfExact ==
    ArithRule("SumOf") =>
        check_res = CheckOk(/\ IntOf(op.args[1].value)
                                = IntOf(op.args[2].value) + IntOf(op.args[3].value)
                            /\ KeysMatch)

\* C10: ProductOf (MaxOf) on three entries and a ProductOf (MaxOf) output is
\* not an invalid deduction and returns Ok(true) exactly when the first integer
\* is the product (the maximum) of the other two and the keys match
C10_ProductMaxExact ==
    /\ ArithRule("ProductOf") =>
          check_res = CheckOk(/\ IntOf(op.args[1].value)
                                  = IntOf(op.args[2].value) * IntOf(op.args[3].value)
                              /\ KeysMatch)
    /\ ArithRule("MaxOf") =>
          check_res = CheckOk(/\ IntOf(op.args[1].value)
                                  = IntMax(IntOf(op.args[2].value), IntOf(op.args[3].value))
                              /\ KeysMatch)

\* ----------------------------------------------- claims on Operation::op
\* the number of arguments of a native operation
OpArity(c) ==
    CASE c \in {"None", "NewEntry"} -> 0
      [] c \in {"CopyStatement", "GtToNotEqual", "LtToNotEqual"} -> 1
      [] c \in {"SumOf", "ProductOf", "MaxOf"} -> 3
      [] OTHER -> 2

\* the predicates the arguments of a native operation must have, from the
\* rules of the checker; any predicate where the rule names none
ArgPredicates(c) ==
    CASE c \in {"EqualFromEntries", "NotEqualFromEntries", "GtFromEntries",
                "LtFromEntries"} -> <<{"ValueOf"}, {"ValueOf"}>>
      [] c = "TransitiveEqualFromStatements" -> <<{"Equal"}, {"Equal"}>>
      [] c = "GtToNotEqual" -> <<{"Gt"}>>
      [] c = "LtToNotEqual" -> <<{"Lt"}>>
      [] c = "RenameContainedBy" -> <<{"Contains"}, {"Equal"}>>
      [] c \in {"SumOf", "ProductOf", "MaxOf"} -> <<{"ValueOf"}, {"ValueOf"}, {"ValueOf"}>>
      [] OTHER -> [i \in 1..OpArity(c) |-> {a.pred : a \in NewArgStatements}]

WellFormed(c, args) ==
    /\ Len(args) = OpArity(c)
    /\ \A i \in 1..Len(args) : args[i].pred \in ArgPredicates(c)[i]

\* C11: Operation::op returns an error whenever the number of arguments is
\* not the arity of the code or an argument has the wrong predicate for its
\* position; it returns Ok only for well-formed operations
C11_IllFormedRejected ==
    (op_phase_new = "formed" /\ op_res.ok) => WellFormed(op_code, op_args)

\* -------------------------------------- claims on the outcomes of check
\* the pair (operation with its inputs, output) matches a rule of the checker
RulePattern(o, s) ==
    \/ o.code = "None" /\ s.pred = "None"
    \/ o.code = "NewEntry" /\ s.pred = "ValueOf"
    \/ o.code = "CopyStatement"
    \/ \E r \in {<<"EqualFromEntries", "Equal">>, <<"NotEqualFromEntries", "NotEqual">>,
                 <<"GtFromEntries", "Gt">>, <<"LtFromEntries", "Lt">>} :
          o.code = r[1] /\ ArgPreds(o) = <<"ValueOf", "ValueOf">> /\ s.pred = r[2]
    \/ o.code = "ContainsFromEntries" /\ s.pred = "Contains"
    \/ o.code = "NotContainsFromEntries" /\ s.pred = "NotContains"
    \/ o.code = "TransitiveEqualFromStatements" /\ ArgPreds(o) = <<"Equal", "Equal">>
          /\ s.pred = "Equal"
    \/ o.code = "GtToNotEqual" /\ ArgPreds(o) = <<"Gt">> /\ s.pred = "NotEqual"
    \/ o.code = "LtToNotEqual" /\ ArgPreds(o) = <<"Lt">> /\ s.pred = "NotEqual"
    \/ o.code = "RenameContainedBy" /\ ArgPreds(o) = <<"Contains", "Equal">>
          /\ s.pred = "Contains"
    \/ o.code \in {"SumOf", "ProductOf", "MaxOf"}
          /\ ArgPreds(o) = <<"ValueOf", "ValueOf", "ValueOf">> /\ s.pred = o.code

\* C12: check returns Err("Invalid deduction") exactly when the operation and
\* the output match no rule pattern, returns Ok (true or false), never an
\* error, when they match one, and CopyStatement(s) on s' returns Ok(s = s')
C12_NegativeOutcomes ==
    op_phase = "checked" =>
        /\ check_res = CheckErr("Invalid deduction") <=> ~RulePattern(op, out)
        /\ RulePattern(op, out) => check_res.kind = "Ok"
        /\ op.code = "CopyStatement" => check_res = CheckOk(op.args[1] = out)

\* ------------------------------------------- claims on the serialisation
\* C13: the serialisation of a statement has 1 + max_statement_args * 8
\* elements: the predicate code, the arguments in 8 elements each, and eight
\* zeros for each missing argument
C13_ToFieldsLength ==
    ser_phase = "serialised" =>
        LET args == Statement_args(ser_st)
            n == ser_params.max_statement_args
        IN  /\ Len(ser_out.f) = 1 + n * 8
            /\ ser_out.len = 1 + n * 8
            /\ ser_out.f[1] = NativePredicate(ser_st.pred)
            /\ \A i \in 1..n, j \in 1..8 :
                  ser_out.f[1 + (i - 1) * 8 + j]
                      = IF i <= Len(args) THEN StatementArg_to_fields(args[i]).f[j] ELSE 0

\* ---------------------------------------------- claims on the MockMainPod
\* the statement st with exactly n arguments, None arguments filling the end
PaddedTo(st, n) ==
    MockStatement(st.code,
                  [k \in 1..n |-> IF k <= Len(st.args) THEN st.args[k] ELSE StatementArgNone])

\* what slot j (from 0) of a row of statements sts holds
SlotOf(sts, j, n) ==
    IF j < Len(sts) THEN PaddedTo(sts[j + 1], n) ELSE PaddedTo(MockStatement("None", <<>>), n)

\* the public statements of pod i (from 0) of pods, none when it is missing
PubOf(pods, i) == IF i < Len(pods) THEN pods[i + 1].pub_statements ELSE <<>>

InputOpArg(n, k) ==
    IF n <= Len(mp_inputs.operations) /\ k <= Len(mp_inputs.operations[n].args)
    THEN mp_inputs.operations[n].args[k]
    ELSE MidArgNone

\* statement i (from 0) of the array is what the argument refers to
RefersTo(src, i) ==
    IF src.t = "Key"
    THEN /\ mp_statements[i + 1].code = "ValueOf"
         /\ mp_statements[i + 1].args[1] = StatementArgKey(src.ak)
    ELSE mp_statements[i + 1] = src.st

\* C16: every resolved argument is the smallest index of a statement the
\* argument refers to, None arguments stay None, and process_operations emits
\* max_statements operations of max_operation_args arguments each, None
\* operations and None arguments filling the end
C16_Resolution ==
    mp_phase = "done" =>
        /\ Len(mp_operations) = mp_params.max_statements
        /\ \A n \in 1..Len(mp_operations) :
              /\ Len(mp_operations[n].args) = mp_params.max_operation_args
              /\ mp_operations[n].code
                    = IF n <= Len(mp_inputs.operations)
                      THEN mp_inputs.operations[n].code ELSE "None"
              /\ \A k \in 1..Len(mp_operations[n].args) :
                    LET src == InputOpArg(n, k)
                        res == mp_operations[n].args[k]
                    IN  IF src.t = "None"
                        THEN res = OperationArgNone
                        ELSE /\ res.t = "Index"
                             /\ res.i \in 0..(Len(mp_statements) - 1)
                             /\ RefersTo(src, res.i)
                             /\ \A j \in 0..(res.i - 1) : ~RefersTo(src, j)

\* an argument was resolved that two statements of the array match
C16_Witness ==
    /\ mp_phase = "done"
    /\ \E n \in 1..Len(mp_operations) : \E k \in 1..Len(mp_operations[n].args) :
          /\ InputOpArg(n, k).t = "Key"
          /\ mp_operations[n].args[k].t = "Index"
          /\ \E j \in 0..(Len(mp_statements) - 1) :
                j > mp_operations[n].args[k].i /\ RefersTo(InputOpArg(n, k), j)

\* ------------------------------------------------------------------ C15
\* the bounds of Params the builder exceeds
TooManyStatements == Len(b_statements) > b_params.max_statements

TooManyPublicStatements == Len(b_public_statements) > b_params.max_public_statements

TooManyStatementArgs ==
    \E i \in 1..Len(b_statements) :
        Len(Statement_args(compile_st(b_statements[i]))) > b_params.max_statement_args

TooManyOperationArgs ==
    \E i \in 1..Len(b_operations) :
        /\ ~compile_op(b_operations[i]).panic
        /\ Len(compile_op(b_operations[i]).op.args) > b_params.max_operation_args

TooManyInputPods ==
    \/ Len(b_input_signed_pods) > b_params.max_input_signed_pods
    \/ Len(b_input_main_pods) > b_params.max_input_main_pods

TooManySignedPodValues ==
    \E i \in 1..Len(b_input_signed_pods) :
        Len(b_input_signed_pods[i].pod.pub_statements) > b_params.max_signed_pod_values

\* C15: prove does not return a pod when the builder holds more statements,
\* public statements, statement arguments, operation arguments, input pods
\* or signed pod values than Params allows
C15_BoundsEnforced ==
    builder_phase = "proved" =>
        /\ ~TooManyStatements
        /\ ~TooManyPublicStatements
        /\ ~TooManyStatementArgs
        /\ ~TooManyOperationArgs
        /\ ~TooManyInputPods
        /\ ~TooManySignedPodValues

\* ------------------------------------------------------------------ C17
\* the name cN
CName(n) == "c" \o ToString(n)

IsLiteral(arg) == arg.t = "Literal"

\* the literal arguments of an operation, in argument order
LiteralArgs(o) == SelectSeq(o.args, IsLiteral)

\* the positions of the entries made for hoisted literals
HoistedAt ==
    {i \in 1..Len(b_operations) :
        /\ b_operations[i].code = "NewEntry"
        /\ \E n \in 0..Len(b_operations) : b_operations[i].args[1].key = CName(n)}

\* C17: the entries made for hoisted literals are named c0, c1, ..., c(n-1)
\* in the order of the statement list, each name once; the entries of one
\* operation sit before it in the order of its arguments; const_cnt = n
C17_ConstNames ==
    /\ Cardinality(HoistedAt) = b_const_cnt
    /\ \A i \in HoistedAt :
          /\ b_operations[i].args[1].key = CName(Cardinality({j \in HoistedAt : j < i}))
          /\ b_statements[i].pred = "ValueOf"
          /\ b_statements[i].aks[1].key = b_operations[i].args[1].key
          /\ \E j \in (i + 1)..Len(b_operations) : i >= j - Len(LiteralArgs(b_operations[j]))
    /\ \A j \in 1..Len(b_operations) :
          LET lits == LiteralArgs(b_operations[j])
          IN  \A t \in 1..Len(lits) :
                 /\ j - Len(lits) + t - 1 \in HoistedAt
                 /\ b_statements[j - Len(lits) + t - 1].value = lits[t].value

\* three literals were hoisted, two of them for one operation
C17_Witness ==
    /\ b_const_cnt = 3
    /\ \E j \in 1..Len(b_operations) : Len(LiteralArgs(b_operations[j])) = 2
    /\ \E j \in 1..Len(b_operations) : Len(LiteralArgs(b_operations[j])) = 1

\* ------------------------------------------------------------------ C18
\* the elements of a sequence
Range(seq) == {seq[i] : i \in 1..Len(seq)}

\* the builder of zu_kyc_pod_builder: the two signed pods and the four
\* operations, each with the entries of its literals before it, all by pub_op
ZuKycBuilt ==
    /\ b_input_signed_pods = <<GovId, PayStub>>
    /\ Len(b_operations) = 7
    /\ b_operations[2] = ZuKycNotContains
    /\ b_operations[4] = ZuKycLt
    /\ b_operations[5] = ZuKycEqSsn
    /\ b_operations[7] = ZuKycEqStart
    /\ {b_statements[2], b_statements[4], b_statements[5], b_statements[7]}
           \subseteq Range(b_public_statements)

\* the entries of the builder anchored at SELF
SelfEntries ==
    {i \in 1..Len(b_statements) :
        b_statements[i].pred = "ValueOf" /\ b_statements[i].aks[1].origin.id = SELF}

\* the statements the builder derived for the ZuKYC operations
ZuKycDerived ==
    <<b_statements[2], b_statements[4], b_statements[5], b_statements[7]>>

\* C18: the public statements of the ZuKYC builder are the four derived
\* statements NotContains, Lt, Equal, Equal and its statements hold three
\* entries at SELF; no entry made for a hoisted literal is ever public
C18_ZuKycPublic ==
    /\ ZuKycBuilt =>
          /\ b_public_statements = ZuKycDerived
          /\ <<b_statements[2].pred, b_statements[4].pred, b_statements[5].pred,
               b_statements[7].pred>> = <<"NotContains", "Lt", "Equal", "Equal">>
          /\ Cardinality(SelfEntries) = 3
    /\ \A i \in HoistedAt : b_statements[i] \notin Range(b_public_statements)

\* ------------------------------------------------------------------ C19
\* C19: the statement at the position of a NewEntry operation is the ValueOf
\* of the operation's key and value at SELF, its lowering is anchored at
\* (SELF, hash_str(key)) and passes check(NewEntry, _); check(NewEntry,
\* ValueOf(ak, v)) is Ok(true) exactly for the keys anchored at SELF
C19_NewEntrySelf ==
    /\ \A i \in 1..Len(b_operations) :
          b_operations[i].code = "NewEntry" =>
              LET key == b_operations[i].args[1].key
                  value == b_operations[i].args[1].value
                  low == compile_st(b_statements[i])
              IN  /\ b_statements[i].pred = "ValueOf"
                  /\ b_statements[i].aks[1].origin.id = SELF
                  /\ b_statements[i].aks[1].key = key
                  /\ b_statements[i].value = value
                  /\ low = ValueOf(AnchoredKey(SELF, hash_str(key)), MiddlewareValue(value))
                  /\ ~compile_op(b_operations[i]).panic
                  /\ check(compile_op(b_operations[i]).op, low, TRUE) = CheckOk(TRUE)
    /\ \A ak \in AllAKs \cup {compile_anchored_key(b_statements[i].aks[1]) :
                                 i \in {j \in 1..Len(b_statements) :
                                           b_statements[j].pred = "ValueOf"}} :
          \A v \in CmpVals :
              /\ check(Operation("NewEntry", <<>>), ValueOf(ak, v), TRUE)
                     = CheckOk(ak.pod = SELF)
              /\ check(Operation("NewEntry", <<>>), ValueOf(ak, v), FALSE)
                     = CheckOk(ak.pod = SELF)

\* the builder holds an entry of the user and an entry of a hoisted literal
C19_Witness ==
    /\ HoistedAt # {}
    /\ \E i \in 1..Len(b_operations) : b_operations[i] = UserEntry

\* ------------------------------------------------------------------ C20
\* the public statements of the pods added to the builder
InputPodStatements ==
    UNION {Range(b_input_signed_pods[i].pod.pub_statements) :
              i \in 1..Len(b_input_signed_pods)}
    \cup UNION {Range(b_input_main_pods[i].pod.pub_statements) :
                   i \in 1..Len(b_input_main_pods)}

\* the anchored key of statement i has a ValueOf before i or in an added pod
Backed(i, ak) ==
    \/ \E j \in 1..(i - 1) :
          b_statements[j].pred = "ValueOf" /\ b_statements[j].aks[1] = ak
    \/ \E s \in InputPodStatements :
          /\ s.code = "ValueOf"
          /\ s.args[1].t = "Key"
          /\ s.args[1].ak = compile_anchored_key(ak)

\* C20: in a pod that prove returned, every anchored key of a statement
\* other than ValueOf has a ValueOf for the same key earlier in the
\* builder's statements or among the public statements of an added pod
C20_KeysBacked ==
    builder_phase = "proved" =>
        \A i \in 1..Len(b_statements) :
            b_statements[i].pred # "ValueOf" =>
                \A k \in 1..Len(b_statements[i].aks) : Backed(i, b_statements[i].aks[k])

\* ------------------------------------------------------------------ C21
\* the predicate of the batch at index k is the one call k defined
DefinedBy(p, call) ==
    /\ p.conjunction = call.conjunction
    /\ p.args_len = Len(call.args)
    /\ Len(p.statements) = Len(call.sts)
    /\ \A n \in 1..Len(call.sts) :
          /\ p.statements[n][1] = call.sts[n].predicate
          /\ Len(p.statements[n][2]) = Len(call.sts[n].args)
          /\ \A k \in 1..Len(call.sts[n].args) :
                p.statements[n][2][k].t = call.sts[n].args[k].t

ResolvedAs(call, src, res) ==
    LET names == call.args \o call.priv_args
    IN  IF src.t = "Hash"
        THEN res.t = "Hash" /\ res.h = src.h
        ELSE /\ res.t = "Wildcard"
             /\ res.n \in 0..(Len(names) - 1)
             /\ names[res.n + 1] = src.name
             /\ \A j \in 0..(res.n - 1) : names[j + 1] # src.name
             /\ \A i \in 1..Len(call.args) : call.args[i] = src.name => res.n = i - 1
             /\ (\E i \in 1..Len(call.priv_args) : call.priv_args[i] = src.name)
                    => res.n >= Len(call.args)

\* C22: in every predicate built, each wildcard name is resolved to the index
\* of its first occurrence in args ++ priv_args, the names of args to
\* 0..args_len-1 in order and the names of priv_args to indices from args_len
\* on; hashes are kept
C22_WildcardIndices ==
    \A c \in 1..Len(cp_predicates) :
        \A n \in 1..Len(cp_calls[c].sts) :
            \A k \in 1..Len(cp_calls[c].sts[n].args) :
                LET src == cp_calls[c].sts[n].args[k]
                    res == cp_predicates[c].statements[n][2][k]
                IN  IF src.t = "Literal"
                    THEN res.t = "Literal" /\ res.v = src.v
                    ELSE /\ res.t = "Key"
                         /\ ResolvedAs(cp_calls[c], src.pod_id, res.pod_id)
                         /\ ResolvedAs(cp_calls[c], src.key, res.key)

\* no name is declared twice in args ++ priv_args of the call
DistinctNames(call) ==
    LET names == call.args \o call.priv_args
    IN  \A i, j \in 1..Len(names) : names[i] = names[j] => i = j

\* a hash is kept; a name gets the index of its first occurrence in args
\* chained with priv_args
FirstOccurrence(call, src, res) ==
    LET names == call.args \o call.priv_args
    IN  IF src.t = "Hash"
        THEN res.t = "Hash" /\ res.h = src.h
        ELSE /\ res.t = "Wildcard"
             /\ res.n \in 0..(Len(names) - 1)
             /\ names[res.n + 1] = src.name
             /\ \A j \in 0..(res.n - 1) : names[j + 1] # src.name

\* C22, amended: each wildcard name is resolved to the index of its first
\* occurrence in args ++ priv_args and hashes are kept; when no name is
\* declared twice, the names of args get 0..args_len-1 in order and the
\* names of priv_args get indices from args_len on
C22_FirstOccurrence ==
    \A c \in 1..Len(cp_predicates) :
        \A n \in 1..Len(cp_calls[c].sts) :
            \A k \in 1..Len(cp_calls[c].sts[n].args) :
                LET src == cp_calls[c].sts[n].args[k]
                    res == cp_predicates[c].statements[n][2][k]
                IN  IF src.t = "Literal"
                    THEN res.t = "Literal" /\ res.v = src.v
                    ELSE /\ res.t = "Key"
                         /\ FirstOccurrence(cp_calls[c], src.pod_id, res.pod_id)
                         /\ FirstOccurrence(cp_calls[c], src.key, res.key)
                         /\ DistinctNames(cp_calls[c]) =>
                               /\ ResolvedAs(cp_calls[c], src.pod_id, res.pod_id)
                               /\ ResolvedAs(cp_calls[c], src.key, res.key)

\* a predicate was built from a name declared twice and one from distinct
\* names of args and priv_args, each with a template that uses the names
C22_Witness ==
    /\ Len(cp_predicates) = 2
    /\ ~DistinctNames(cp_calls[1])
    /\ DistinctNames(cp_calls[2])
    /\ Len(cp_calls[2].args) = 2
    /\ Len(cp_calls[2].priv_args) = 1
    /\ \E k \in 1..Len(cp_predicates[2].statements[1][2]) :
          /\ cp_predicates[2].statements[1][2][k].t = "Key"
          /\ cp_predicates[2].statements[1][2][k].pod_id.t = "Wildcard"
          /\ cp_predicates[2].statements[1][2][k].pod_id.n = 2

\* ------------------------------------------------------------------ C23
\* C23: for every i64 x, Value::from(x) converts back to Ok(x)
C23_I64RoundTrip ==
    (cv_phase = "converted" /\ cv_in.kind = "i64") =>
        cv_out.back.ok /\ cv_out.back.val = cv_in.x

\* ------------------------------------------------------------------ C25
\* the Value has the shape (lo32, hi32, 0, 0)
InEmbedding(v) == v[3] = 0 /\ v[4] = 0 /\ v[1] <= U32Max /\ v[2] <= U32Max

\* C25: try_into::<i64> gives Ok exactly for the Values of the shape
\* (lo32, hi32, 0, 0) and the error for every other Value
C25_EmbeddingOnly ==
    (cv_phase = "converted" /\ cv_in.kind = "Value") =>
        (cv_out.back.ok <=> InEmbedding(cv_in.v))

\* ------------------------------------------------------------------ C24
\* the leaves below node n, which sits at position pos (the path bits from
\* the root), each with its position
RECURSIVE LeavesAt(_, _)
LeavesAt(n, pos) ==
    CASE n.t = "Leaf" -> {[key |-> n.key, pos |-> pos]}
      [] n.t = "Intermediate" ->
            LeavesAt(n.left, Append(pos, FALSE)) \cup LeavesAt(n.right, Append(pos, TRUE))
      [] OTHER -> {}

\* the position of the leaf of key k in the tree
PosOf(k) == (CHOOSE l \in LeavesAt(root, <<>>) : l.key = k).pos

\* the number of leading path bits two keys share, at most max_depth
SharedBits(k1, k2) ==
    CHOOSE d \in 0..max_depth :
        /\ \A n \in 0..(d - 1) : PathBit(k1, n) = PathBit(k2, n)
        /\ d = max_depth \/ PathBit(k1, d) # PathBit(k2, d)

\* the leaf of k lies below the child that bit d of k selects of the node at
\* the first d bits of k
BelowChild(k, d) ==
    /\ Len(PosOf(k)) >= d + 1
    /\ \A n \in 0..d : PosOf(k)[n + 1] = PathBit(k, n)

\* the build fails exactly on two keys that share max_depth bits, with 'max
\* depth reached'; a built tree has its leaves at depths 1..max_depth; for
\* more than KeyBits levels the build of a non-empty kvs fails in keypath
BuildOutcome ==
    /\ max_depth <= KeyBits =>
          /\ status = "failed" => build_err = "max depth reached" /\ MustFail
          /\ status = "built" =>
                /\ ~MustFail
                /\ {l.key : l \in LeavesAt(root, <<>>)} = DOMAIN kvs
                /\ \A l \in LeavesAt(root, <<>>) : Len(l.pos) \in 1..max_depth
    /\ (max_depth > KeyBits /\ DOMAIN kvs # {}) =>
          /\ status # "built"
          /\ status = "failed" => build_err = "key to short"

\* C24: the outcome of the build as above, and in a built tree two keys
\* whose paths first differ at bit d are the two children of the
\* intermediate node at depth d
C24_DivergenceChildren ==
    /\ BuildOutcome
    /\ (max_depth <= KeyBits /\ status = "built") =>
          \A k1, k2 \in DOMAIN kvs :
              k1 # k2 =>
                  /\ BelowChild(k1, SharedBits(k1, k2))
                  /\ Len(PosOf(k1)) = SharedBits(k1, k2) + 1

\* C24, amended: the outcome of the build as above, and in a built tree two
\* keys whose paths first differ at bit d lie below the two children of the
\* intermediate node at depth d, a key being that child itself when no
\* other key shares more than d bits with it
C24_DivergenceSubtrees ==
    /\ BuildOutcome
    /\ (max_depth <= KeyBits /\ status = "built") =>
          \A k1, k2 \in DOMAIN kvs :
              k1 # k2 =>
                  /\ BelowChild(k1, SharedBits(k1, k2))
                  /\ (\A k3 \in DOMAIN kvs \ {k1} : SharedBits(k1, k3) <= SharedBits(k1, k2))
                        => Len(PosOf(k1)) = SharedBits(k1, k2) + 1

\* a built tree of three keys, one of which shares more bits with the second
\* than with the third
C24_Witness ==
    /\ status = "built"
    /\ \E k1, k2, k3 \in DOMAIN kvs :
          /\ SharedBits(k1, k2) = 0
          /\ SharedBits(k1, k3) = 2
          /\ Len(PosOf(k1)) = 3
          /\ Len(PosOf(k2)) = 1

\* ------------------------------------------------------------------ C26
\* the intermediate nodes below (and including) node n at position pos, each
\* with its position and the number of leaves beneath it
RECURSIVE InnerAt(_, _)
InnerAt(n, pos) ==
    IF n.t = "Intermediate"
    THEN {[pos |-> pos, leaves |-> Cardinality(LeavesAt(n, pos))]}
            \cup InnerAt(n.left, Append(pos, FALSE))
            \cup InnerAt(n.right, Append(pos, TRUE))
    ELSE {}

\* the keys inserted so far
Inserted == DOMAIN kvs \ pending

\* the largest element of a non-empty set of naturals
MaxOf(S) == CHOOSE x \in S : \A y \in S : y <= x

\* C26: after every successful insertion the tree is in canonical form: a
\* leaf at depth d lies at the position its first d path bits give, no key
\* has two leaves, every intermediate node but the root has at least two
\* leaves beneath it, and the depth of a leaf is 1 plus the longest prefix
\* its key shares with another key of the tree (1 when there is none)
C26_Canonical ==
    (max_depth <= KeyBits /\ status \in {"building", "built"}) =>
        LET L == LeavesAt(root, <<>>)
        IN  /\ \A l \in L : \A n \in 1..Len(l.pos) : l.pos[n] = PathBit(l.key, n - 1)
            /\ {l.key : l \in L} = Inserted
            /\ \A l1, l2 \in L : l1.key = l2.key => l1 = l2
            /\ \A i \in InnerAt(root, <<>>) : i.pos # <<>> => i.leaves >= 2
            /\ \A l \in L :
                  Len(l.pos) =
                      IF Inserted = {l.key}
                      THEN 1
                      ELSE 1 + MaxOf({SharedBits(l.key, k) : k \in Inserted \ {l.key}})

\* three insertions have succeeded, the last below an intermediate node that
\* is not the root
C26_Witness ==
    /\ status = "building"
    /\ Cardinality(Inserted) = 3
    /\ \E i \in InnerAt(root, <<>>) : i.pos # <<>> /\ i.leaves = 2
    /\ \E l \in LeavesAt(root, <<>>) : Len(l.pos) = 1

\* ------------------------------------------------------------------ C27
\* C27: Operation::op inverts code and args: for an operation o of any of
\* the 16 codes, holding as many statements as its variant does,
\* Operation::op(o.code(), &o.args()) is Ok(o)
C27_OpInvertsCodeArgs ==
    (op_phase_new = "formed" /\ Len(op_args) = VariantLen(op_code)) =>
        op_res = OpNewOk(Operation(op_code, op_args))

\* ------------------------------------------------------------------ C28
\* C28: after any sequence of op / pub_op calls no two ValueOf statements of
\* the builder's list have the same anchored key (SELF, key)
C28_SelfKeysUnique ==
    \A i, j \in SelfEntries :
        b_statements[i].aks[1].key = b_statements[j].aks[1].key => i = j

\* ------------------------------------------------------------------ C29
\* C29: the order of Value agrees with the order of the integers embedded:
\* Value::from(x) < Value::from(y) exactly when x < y, and LtFromEntries /
\* GtFromEntries over entries of the two derive Lt / Gt exactly when x < y /
\* x > y, negative integers included
C29_OrderAgrees ==
    (cv_phase = "converted" /\ cv_in.kind = "i64") =>
        /\ (cv_out.cmp = "Less") <=> (cv_in.x < cv_in.y)
        /\ (cv_out.lt = CheckOk(TRUE)) <=> (cv_in.x < cv_in.y)
        /\ (cv_out.gt = CheckOk(TRUE)) <=> (cv_in.x > cv_in.y)

\* ------------------------------------------------------------------ C30
\* what prove computes from the builder before back-references are resolved:
\* the compiled lists, the inputs of MockMainPod::new and the flat array
ProveCompiled == compile(b_params, b_statements, b_operations, b_public_statements)

ProveInputs ==
    [signed_pods |-> [i \in 1..Len(b_input_signed_pods) |-> b_input_signed_pods[i].pod],
     main_pods |-> [i \in 1..Len(b_input_main_pods) |-> b_input_main_pods[i].pod],
     statements |-> input_statements(ProveCompiled),
     operations |-> input_operations(b_params, ProveCompiled)]

ProveLaid == layout_statements(b_params, ProveInputs)

\* the slot (from 0) of the first local statement in the flat array
LocalBase ==
    b_params.max_input_signed_pods * b_params.max_signed_pod_values
        + b_params.max_input_main_pods * b_params.max_public_statements

\* the builder was populated without insert: every pair of its lists comes
\* from op or pub_op
NoInsert == \A i \in 1..Len(b_operations) : b_operations[i].code # "None"

\* the builder reaches the resolution of back-references: its local
\* statements are within the bound, compile and layout_statements succeed
ReachesResolution ==
    /\ builder_phase # "idle"
    /\ NoInsert
    /\ Len(b_statements) <= b_params.max_statements
    /\ ~ProveCompiled.panic
    /\ ~ProveLaid.panic

\* C30: for a builder populated through add_signed_pod, add_main_pod, op and
\* pub_op within the bound on local statements, every statement an operation
\* refers to is found in the flat array (the unwrap of find_op_arg is not
\* reached on a missing match), at an index lower than the slot of the
\* statement the operation derives
C30_BackRefsResolve ==
    ReachesResolution =>
        \A i \in 1..Len(ProveInputs.operations) :
            \A k \in 1..Len(ProveInputs.operations[i].args) :
                LET found == find_op_arg_matches(ProveLaid.statements,
                                                 ProveInputs.operations[i].args[k])
                IN  /\ found # {}
                    /\ find_first(found) < LocalBase + i - 1

====
